---- MODULE Spec2Model ----
(***************************************************************************)
(* A state-machine model of the getit transfer engine:                     *)
(*   - DownloadManager.download_task   (src/getit/core/manager.py)         *)
(*   - DownloadManager.create_task     (src/getit/core/manager.py)         *)
(*   - HTTPClient._with_retry          (src/getit/utils/http.py)           *)
(*   - TaskRegistry                    (src/getit/tasks.py)                *)
(*   - DownloadService                 (src/getit/service.py)              *)
(*   - DownloadManager.download_url    (src/getit/core/manager.py)         *)
(*   - Pacer, wait_for_retry_with_pacer (src/getit/utils/pacer.py)         *)
(*   - HTTPClient.download_stream      (src/getit/utils/http.py)           *)
(*   - FileDownloader.download         (core/downloader.py, after spec.md) *)
(*   - HTTPClient._limiter             (src/getit/utils/http.py)           *)
(*   - EventBus                        (src/getit/events.py)               *)
(* Each component has its own specification over the shared variables; a   *)
(* component's specification leaves the other components' variables alone. *)
(***************************************************************************)
EXTENDS Integers, Sequences, FiniteSets, TLC

VARIABLES
    \* ---- DownloadManager.download_task ----
    max_concurrent,  \* DownloadManager.max_concurrent
    max_retries,     \* DownloadManager.max_retries, copied to every task
    sem,             \* free permits of DownloadManager._semaphore
    pc,              \* per task: position of its download_task coroutine
    attempt,         \* per task: the loop variable `attempt`
    retries,         \* per task: task.retries
    status,          \* per task: task.progress.status
    error,           \* per task: task.progress.error
    outcomes,        \* per task: how each FileDownloader.download call ended
    sleeps,          \* per task: the asyncio.sleep durations of download_task
    result,          \* per task: the DownloadResult returned
    \* ---- DownloadManager.create_task and the output files ----
    disk,            \* the paths that exist in the target directory
    fileName,        \* per file: FileInfo.filename given to create_task
    outPath,         \* per file: task.output_path, NoPath before create_task
    targetDir,       \* per file: the target_dir of its create_task call
    writes,          \* <<path, file>>: the transfer of `file` wrote to `path`
    \* ---- HTTPClient._with_retry (one request method call) ----
    http_max_retries, \* HTTPClient._max_retries
    http_pc,          \* position of the call: idle, await, sleeping, returned, raised
    http_method,      \* the public method that was called
    http_attempt,     \* the loop variable `attempt`
    http_awaited,     \* the awaitable passed as `coro` has been awaited before
    http_responses,   \* what each underlying request met, in order
    http_sleeps,      \* the asyncio.sleep calls of _with_retry, in order
    http_error,       \* the exception the call raised
    \* ---- TaskRegistry ----
    connected,        \* TaskRegistry._db is not None
    db,               \* the rows of table `tasks`, by task_id
    \* ---- DownloadService ----
    svc_pc,           \* per download() call: its position
    svc_task,         \* per download() call: the task_id it created
    svc_results,      \* per download() call: what download_url returned
    pending,          \* the _safe_update tasks scheduled and not yet run, oldest first
    cancel_pc,        \* position of a cancel() call
    cancel_id,        \* the task_id the cancel() call was given
    cancel_ret,       \* what the last cancel() call returned
    events,           \* the events emitted on the event bus
    \* ---- one file transfer run for a download() call ----
    cancel_event,     \* per download() call: FileDownloader._cancel_event is set
    chunks,           \* per download() call: the chunks its transfer has written
    dl_status,        \* per download() call: task.progress.status of its file
    \* ---- DownloadManager.download_url (one call) ----
    batch_pc,         \* position of the call: idle, gathering, returned
    batch_files,      \* how many files extract_files returned
    batch_results,    \* the list download_url returned
    \* ---- what the callers of the TaskRegistry have been told ----
    written,          \* by task_id: the values of the operations that returned
    since_write,      \* the connection since the last write: same, closed, reopened
    \* ---- the wall clock ----
    clock,            \* what datetime.now() returns
    \* ---- wait_for_retry_with_pacer (one call) and its Pacer ----
    pacer_max_retries, \* the argument max_retries
    pacer_retryable,   \* the argument is_retryable
    pacer_pc,          \* position of the call: get, sleeping, returned
    pacer_attempt,     \* the loop variable `attempt`
    pacer_count,       \* Pacer._attempt_count
    pacer_log,         \* per attempt: whether the GET returned, the text the Pacer
                       \* was given, the sleeps made
    pacer_ret,         \* what the call returned
    pacer_delays,      \* what the direct calls Pacer.calculate_backoff(attempt)
                       \* returned or raised
    \* ---- HTTPClient.download_stream (one call) ----
    st_pc,             \* position of the generator: idle, streaming, ended, raised
    st_resp,           \* the response the stream request met
    st_body,           \* the bytes resp.content has still to deliver
    st_total,          \* the local variable `total`
    st_downloaded,     \* the local variable `downloaded`
    st_yields,         \* the tuples yielded so far: chunk length, downloaded, total
    st_timeout,        \* HTTPClient._chunk_timeout is not None
    st_error,          \* the exception the generator raised
    \* ---- FileDownloader.download for the task of one download_task call ----
    fd_cfg,            \* FileDownloader.enable_resume and .verify_checksum
    fd_remote,         \* the remote file: size, range support, header, hash
    fd_info,           \* FileInfo.checksum and .checksum_type
    fd_pc,             \* position inside download(): idle, stream, paused, verify, returned
    fd_runs,           \* the download() calls started so far
    fd_file,           \* the bytes in the file at task.output_path
    fd_start,          \* how the running call began: bytes found, offset asked, downloaded
    fd_left,           \* the bytes the open stream has still to deliver
    fd_downloaded,     \* task.progress.downloaded
    fd_chunk_retries,  \* the chunk-level retries made inside the running call
    fd_cancel,         \* FileDownloader._cancel_event is set
    fd_verified,       \* the running call has reached its verification step
    fd_raised,         \* the exception the running call ended with
    \* ---- HTTPClient._limiter and the request starts of concurrent callers ----
    rl_rps,            \* HTTPClient._requests_per_second
    rl_now,            \* the time, in half seconds
    rl_pc,             \* per caller: idle, called, started, done
    rl_method,         \* per caller: the HTTPClient method it called
    rl_acquired,       \* <<caller, time>>: the limiter was acquired
    rl_starts,         \* <<caller, time>>: a request was started
    \* ---- EventBus ----
    subs,              \* EventBus._subscribers: per event the list of callbacks
    em_pc,             \* position of the emit call: idle, delivering, returned
    em_event,          \* the event being emitted
    em_index,          \* the position of the for loop's list iterator
    em_snapshot,       \* the subscribers of the event when emit was called
    em_called,         \* the callbacks emit has called, in order
    em_logged,         \* the callbacks whose exception emit has logged
    em_changed         \* a callback changed the event's list during the delivery

mgrVars == <<max_concurrent, max_retries, sem, pc, attempt, retries, status,
             error, outcomes, sleeps, result>>

pathVars == <<disk, fileName, outPath, targetDir, writes>>

httpVars == <<http_max_retries, http_pc, http_method, http_attempt, http_awaited,
              http_responses, http_sleeps, http_error>>

regVars == <<connected, db>>

svcVars == <<svc_pc, svc_task, svc_results, pending, cancel_pc, cancel_id,
             cancel_ret, events>>

xferVars == <<cancel_event, chunks, dl_status>>

batchVars == <<batch_pc, batch_files, batch_results>>

callerVars == <<written, since_write>>

clockVars == <<clock>>

streamVars == <<st_pc, st_resp, st_body, st_total, st_downloaded, st_yields,
                st_timeout, st_error>>

fdVars == <<fd_cfg, fd_remote, fd_info, fd_pc, fd_runs, fd_file, fd_start, fd_left,
            fd_downloaded, fd_chunk_retries, fd_cancel, fd_verified, fd_raised>>

limVars == <<rl_rps, rl_now, rl_pc, rl_method, rl_acquired, rl_starts>>

busVars == <<subs, em_pc, em_event, em_index, em_snapshot, em_called, em_logged, em_changed>>

pacerVars == <<pacer_max_retries, pacer_retryable, pacer_pc, pacer_attempt,
               pacer_count, pacer_log, pacer_ret, pacer_delays>>

vars == <<mgrVars, pathVars, httpVars, regVars, svcVars, xferVars, batchVars,
          callerVars, clockVars, pacerVars, streamVars, fdVars, limVars, busVars>>

\* What the actions of one component leave alone.
notMgr == <<busVars, limVars, fdVars, streamVars, pacerVars, clockVars, callerVars, batchVars, pathVars, httpVars, regVars, svcVars, xferVars>>
notPath == <<busVars, limVars, fdVars, streamVars, pacerVars, clockVars, callerVars, batchVars, mgrVars, httpVars, regVars, svcVars, xferVars>>
notHttp == <<busVars, limVars, fdVars, streamVars, pacerVars, clockVars, callerVars, batchVars, mgrVars, pathVars, regVars, svcVars, xferVars>>
notReg == <<busVars, limVars, fdVars, streamVars, pacerVars, clockVars, batchVars, mgrVars, pathVars, httpVars, svcVars, xferVars>>
notSvc == <<busVars, limVars, fdVars, streamVars, pacerVars, clockVars, callerVars, batchVars, mgrVars, pathVars, httpVars, xferVars>>
notXfer == <<busVars, limVars, fdVars, streamVars, pacerVars, clockVars, callerVars, batchVars, mgrVars, pathVars, httpVars>>
notBatch == <<busVars, limVars, fdVars, streamVars, pacerVars, clockVars, callerVars, pathVars, httpVars, regVars, svcVars, xferVars>>

\* ------------------------------------------------------------------ bounds
NumTasks == 3
MaxConcurrent == 2
MaxRetries == 2
NumFiles == 3

Tasks == 1..NumTasks
Files == 1..NumFiles

\* ------------------------------------------------------------ helpers
RECURSIVE Pow2(_)
Pow2(n) == IF n = 0 THEN 1 ELSE 2 * Pow2(n - 1)

Min(a, b) == IF a < b THEN a ELSE b

Last(s) == s[Len(s)]

None == "None"

(***************************************************************************)
(* DownloadManager.download_task                                           *)
(***************************************************************************)

\* DownloadResult.succeeded / failed / cancelled
DownloadResult_succeeded == [kind |-> "succeeded", success |-> TRUE, error |-> None]
DownloadResult_failed(err) == [kind |-> "failed", success |-> FALSE, error |-> err]
DownloadResult_cancelled ==
    [kind |-> "cancelled", success |-> FALSE, error |-> "Download cancelled"]
NoResult == [kind |-> "none", success |-> FALSE, error |-> None]

\* The ways one FileDownloader.download(task) call can end: the value it
\* returns and the status and error text it leaves in task.progress.
FileDownloader_download ==
    { [success |-> TRUE,  status |-> "COMPLETED", error |-> None],
      [success |-> FALSE, status |-> "FAILED",    error |-> "err"],
      [success |-> FALSE, status |-> "FAILED",    error |-> None],
      [success |-> FALSE, status |-> "FAILED",    error |-> ""],
      [success |-> FALSE, status |-> "CANCELLED", error |-> None] }

OutcomeKind(o) ==
    IF o.success THEN "ok"
    ELSE IF o.status = "CANCELLED" THEN "cancel" ELSE "fail"

\* Mutant: the task's error is passed on as it is.
ErrorOr_AsIs(e, default) == e

\* `task.progress.error or "Max retries exceeded"`: None and the empty
\* string both give the default.
ErrorOr(e, default) == IF e = None \/ e = "" THEN default ELSE e

\* Mutant: the loop bound off by one.
InRange_OneMore(a, r) == a < r + 2

\* `for attempt in range(task.max_retries + 1)`
InRange(a, r) == a < r + 1

\* Mutant: the backoff sleep is made after every failed attempt.
ShouldBackoff_Always(a, r) == TRUE

\* `if attempt < task.max_retries` guarding the backoff sleep
ShouldBackoff(a, r) == a < r

\* Mutant: the permit is given back for the time of the backoff sleep.
PermitsWhileSleeping_Released(s) == s + 1

\* `await asyncio.sleep(2**attempt)` stands inside the `async with
\* self._semaphore` block: the free permits stay as they are
PermitsWhileSleeping(s) == s

\* Mutant: the cancellation check is missing.
IsCancelled_Never(st) == FALSE

\* `if task.progress.status == DownloadStatus.CANCELLED`
IsCancelled(st) == st = "CANCELLED"

\* Mutant: the retry puts the task straight back into DOWNLOADING.
StatusForRetry_Downloading == "DOWNLOADING"

\* `task.progress.status = DownloadStatus.PENDING` after the backoff sleep
StatusForRetry == "PENDING"

\* Mutant: the block is entered without waiting for a permit.
SemaphoreFree_NoWait(s) == TRUE

\* `async with self._semaphore` entry: the call waits for a free permit
SemaphoreFree(s) == s > 0

MgrInit ==
    /\ max_concurrent \in 1..MaxConcurrent
    /\ max_retries \in 0..MaxRetries
    /\ sem = max_concurrent
    /\ pc = [t \in Tasks |-> "idle"]
    /\ attempt = [t \in Tasks |-> 0]
    /\ retries = [t \in Tasks |-> 0]
    /\ status = [t \in Tasks |-> "PENDING"]
    /\ error = [t \in Tasks |-> None]
    /\ outcomes = [t \in Tasks |-> <<>>]
    /\ sleeps = [t \in Tasks |-> <<>>]
    /\ result = [t \in Tasks |-> NoResult]

\* download_task(task) is called: the coroutine reaches `async with`.
CallDownloadTask(t) ==
    /\ pc[t] = "idle"
    /\ pc' = [pc EXCEPT ![t] = "acquire"]
    /\ UNCHANGED <<max_concurrent, max_retries, sem, attempt, retries, status,
                   error, outcomes, sleeps, result>>
    /\ UNCHANGED notMgr

\* The semaphore is acquired, the loop starts with attempt 0 and
\* downloader.download(task) is entered.
AcquireAndStart(t) ==
    /\ pc[t] = "acquire"
    /\ SemaphoreFree(sem)
    /\ IF InRange(0, max_retries)
       THEN /\ sem' = sem - 1
            /\ pc' = [pc EXCEPT ![t] = "in_download"]
            /\ attempt' = [attempt EXCEPT ![t] = 0]
            /\ retries' = [retries EXCEPT ![t] = 0]
            /\ UNCHANGED result
       ELSE \* an empty range: the block is left at once, the permit returned
            /\ pc' = [pc EXCEPT ![t] = "done"]
            /\ result' = [result EXCEPT ![t] = DownloadResult_failed(
                              ErrorOr(error[t], "Max retries exceeded"))]
            /\ UNCHANGED <<sem, attempt, retries>>
    /\ UNCHANGED <<max_concurrent, max_retries, status, error, outcomes, sleeps>>
    /\ UNCHANGED notMgr

\* downloader.download(task) returns `o`; the code after the await runs up to
\* the next suspension point: a return (the permit is released on leaving
\* the `async with` block) or the backoff sleep.
AttemptEnds(t, o) ==
    /\ pc[t] = "in_download"
    /\ outcomes' = [outcomes EXCEPT ![t] = Append(@, OutcomeKind(o))]
    /\ status' = [status EXCEPT ![t] = o.status]
    /\ error' = [error EXCEPT ![t] = o.error]
    /\ IF o.success
       THEN /\ result' = [result EXCEPT ![t] = DownloadResult_succeeded]
            /\ pc' = [pc EXCEPT ![t] = "done"]
            /\ sem' = sem + 1
            /\ UNCHANGED <<sleeps, attempt, retries>>
       ELSE IF IsCancelled(o.status)
       THEN /\ result' = [result EXCEPT ![t] = DownloadResult_cancelled]
            /\ pc' = [pc EXCEPT ![t] = "done"]
            /\ sem' = sem + 1
            /\ UNCHANGED <<sleeps, attempt, retries>>
       ELSE IF ShouldBackoff(attempt[t], max_retries)
       THEN /\ sleeps' = [sleeps EXCEPT ![t] = Append(@, Pow2(attempt[t]))]
            /\ pc' = [pc EXCEPT ![t] = "sleeping"]
            /\ sem' = PermitsWhileSleeping(sem)
            /\ UNCHANGED <<result, attempt, retries>>
       ELSE IF InRange(attempt[t] + 1, max_retries)
       THEN \* no sleep, no reset: the loop goes straight to the next attempt
            /\ attempt' = [attempt EXCEPT ![t] = @ + 1]
            /\ retries' = [retries EXCEPT ![t] = attempt[t] + 1]
            /\ UNCHANGED <<pc, result, sem, sleeps>>
       ELSE /\ result' = [result EXCEPT ![t] = DownloadResult_failed(
                              ErrorOr(o.error, "Max retries exceeded"))]
            /\ pc' = [pc EXCEPT ![t] = "done"]
            /\ sem' = sem + 1
            /\ UNCHANGED <<sleeps, attempt, retries>>
    /\ UNCHANGED <<max_concurrent, max_retries>>
    /\ UNCHANGED notMgr

\* asyncio.sleep(2**attempt) returns: status and error are reset and the
\* loop enters the next attempt (or falls out of the loop).
BackoffEnds(t) ==
    /\ pc[t] = "sleeping"
    /\ status' = [status EXCEPT ![t] = StatusForRetry]
    /\ error' = [error EXCEPT ![t] = None]
    /\ IF InRange(attempt[t] + 1, max_retries)
       THEN /\ attempt' = [attempt EXCEPT ![t] = @ + 1]
            /\ retries' = [retries EXCEPT ![t] = attempt[t] + 1]
            /\ pc' = [pc EXCEPT ![t] = "in_download"]
            /\ UNCHANGED <<result, sem>>
       ELSE /\ result' = [result EXCEPT ![t] = DownloadResult_failed("Max retries exceeded")]
            /\ pc' = [pc EXCEPT ![t] = "done"]
            /\ sem' = sem + 1
            /\ UNCHANGED <<attempt, retries>>
    /\ UNCHANGED <<max_concurrent, max_retries, outcomes, sleeps>>
    /\ UNCHANGED notMgr

\* Mutant: an exception leaves the block with the permit still taken.
PermitsAfterException_Kept(s) == s

\* `async with self._semaphore`: __aexit__ releases the permit also when
\* an exception leaves the block
PermitsAfterException(s) == s + 1

\* downloader.download(task) raises: the exception leaves the loop and the
\* `async with` block and download_task raises it to its caller.
DownloaderRaises(t) ==
    /\ pc[t] = "in_download"
    /\ outcomes' = [outcomes EXCEPT ![t] = Append(@, "raise")]
    /\ pc' = [pc EXCEPT ![t] = "raised"]
    /\ sem' = PermitsAfterException(sem)
    /\ UNCHANGED <<max_concurrent, max_retries, attempt, retries, status, error,
                   sleeps, result>>
    /\ UNCHANGED notMgr

\* The asyncio task running download_task is cancelled: CancelledError is
\* raised at the await the coroutine is suspended in. Waiting for the
\* semaphore it holds no permit; inside the block, in download() or in the
\* backoff sleep, the permit is released on the way out.
TaskCancelled(t) ==
    /\ pc[t] \in {"acquire", "in_download", "sleeping"}
    /\ pc' = [pc EXCEPT ![t] = "cancelled"]
    /\ sem' = IF pc[t] = "acquire" THEN sem ELSE PermitsAfterException(sem)
    /\ UNCHANGED <<max_concurrent, max_retries, attempt, retries, status, error,
                   outcomes, sleeps, result>>
    /\ UNCHANGED notMgr

MgrNext ==
    \/ \E t \in Tasks : CallDownloadTask(t)
    \/ \E t \in Tasks : AcquireAndStart(t)
    \/ \E t \in Tasks : \E o \in FileDownloader_download : AttemptEnds(t, o)
    \/ \E t \in Tasks : BackoffEnds(t)

\* The calls followed to their exits: three of them, so that a returned, a
\* raising and a cancelled call can share the permits.
ExitTasks == {t \in Tasks : t <= 3}

\* download_task with the exits an exception makes
MgrExitNext ==
    \/ \E t \in ExitTasks : CallDownloadTask(t)
    \/ \E t \in ExitTasks : AcquireAndStart(t)
    \/ \E t \in ExitTasks : \E o \in FileDownloader_download : AttemptEnds(t, o)
    \/ \E t \in ExitTasks : BackoffEnds(t)
    \/ \E t \in ExitTasks : DownloaderRaises(t)
    \/ \E t \in ExitTasks : TaskCancelled(t)

(***************************************************************************)
(* DownloadManager.download_url: one download_task per extracted file,      *)
(* run together by asyncio.gather                                           *)
(***************************************************************************)

BatchInit ==
    /\ batch_pc = "idle"
    /\ batch_files = 0
    /\ batch_results = <<>>

\* The tasks of the files of the batch, in extraction order
BatchTasks(n) == 1..n

\* Mutant: the gather gives up as soon as one of its coroutines has failed.
GatherDone_FirstFailure(p, res, n) ==
    \/ \A t \in BatchTasks(n) : p[t] = "done"
    \/ \E t \in BatchTasks(n) : p[t] = "done" /\ ~res[t].success

\* `await asyncio.gather(*download_coros)` is over when every coroutine has
\* returned; download_task returns its failures as results.
GatherDone(p, res, n) == \A t \in BatchTasks(n) : p[t] = "done"

\* `list(results)`: the results in the order of the coroutines, each
\* DownloadResult holding the task its download_task was given.
GatheredResults(res, n) == [t \in BatchTasks(n) |-> [task |-> t, result |-> res[t]]]

\* download_url: extract_files returns n files, a task is created for each
\* and the download_task coroutines are handed to asyncio.gather.
DownloadUrlStarts(n) ==
    /\ batch_pc = "idle"
    /\ batch_pc' = "gathering"
    /\ batch_files' = n
    /\ UNCHANGED <<batch_results, mgrVars>>
    /\ UNCHANGED notBatch

\* The event loop starts the coroutine of task t of the batch.
GatherRuns(t) ==
    /\ batch_pc = "gathering"
    /\ t \in BatchTasks(batch_files)
    /\ CallDownloadTask(t)

\* The gather is over and download_url returns the list.
DownloadUrlReturns ==
    /\ batch_pc = "gathering"
    /\ GatherDone(pc, result, batch_files)
    /\ batch_results' = GatheredResults(result, batch_files)
    /\ batch_pc' = "returned"
    /\ UNCHANGED <<batch_files, mgrVars>>
    /\ UNCHANGED notBatch

BatchNext ==
    \/ \E n \in Tasks : DownloadUrlStarts(n)
    \/ \E t \in Tasks : GatherRuns(t)
    \/ \E t \in Tasks : AcquireAndStart(t)
    \/ \E t \in Tasks : \E o \in FileDownloader_download : AttemptEnds(t, o)
    \/ \E t \in Tasks : BackoffEnds(t)
    \/ DownloadUrlReturns

(***************************************************************************)
(* sanitize_filename and DownloadManager.create_task                       *)
(* A file name is a sequence of characters; a path inside the target       *)
(* directory is the name of its last component.                            *)
(***************************************************************************)

\* `if len(filename) > 255`
MaxNameLen == 255

\* The characters sanitize_filename replaces by "_": the path separators
\* (step 3) and INVALID_CHARS (step 4).
ReplacedChars == {"/", "\\", ":", "*", "?", "\"", "<", ">", "|"}

RECURSIVE RemoveChar(_, _)
RemoveChar(s, c) ==
    IF s = <<>> THEN <<>>
    ELSE IF Head(s) = c THEN RemoveChar(Tail(s), c)
    ELSE <<Head(s)>> \o RemoveChar(Tail(s), c)

\* sanitize_filename: NUL bytes removed, separators and illegal characters
\* replaced, the result cut to 255 characters. The four traversal and
\* absolute-path patterns need a "/", a "\" or a ":" to match, and none is
\* left when they are applied.
sanitize_filename(name) ==
    IF name = <<>> THEN <<>>
    ELSE LET noNul == RemoveChar(name, "NUL")
             repl == [i \in 1..Len(noNul) |->
                        IF noNul[i] \in ReplacedChars THEN "_" ELSE noNul[i]]
         IN IF Len(repl) > MaxNameLen THEN SubSeq(repl, 1, MaxNameLen) ELSE repl

\* str.rfind("."): the last index of "." in s, 0 when there is none
RECURSIVE RFindDot(_, _)
RFindDot(s, i) ==
    IF i = 0 THEN 0
    ELSE IF s[i] = "." THEN i ELSE RFindDot(s, i - 1)

\* PurePath.suffix and PurePath.stem of a final path component
HasSuffix(name) ==
    LET i == RFindDot(name, Len(name)) IN 1 < i /\ i < Len(name)
PathSuffix(name) ==
    IF HasSuffix(name)
    THEN SubSeq(name, RFindDot(name, Len(name)), Len(name)) ELSE <<>>
PathStem(name) ==
    IF HasSuffix(name)
    THEN SubSeq(name, 1, RFindDot(name, Len(name)) - 1) ELSE name

\* str(counter) for the counters the model reaches
Digits == <<"1", "2", "3", "4", "5", "6", "7", "8", "9">>

\* Mutant: the extension is left off the numbered name.
NumberedName_NoSuffix(stem, counter, suffix) == stem \o <<"_", Digits[counter]>>

\* f"{original_stem}_{counter}{original_suffix}"
NumberedName(stem, counter, suffix) ==
    stem \o <<"_", Digits[counter]>> \o suffix

\* The final components that name a directory instead of a file in the
\* target directory: "" and "." give the target directory itself, ".." its
\* parent.
DirectoryNames == { <<>>, <<".">>, <<".", ".">> }

\* Path.exists() against the files of the target directory; the target
\* directory and its parent exist.
PathExists(p, d) == p \in d \/ p \in DirectoryNames

\* The `while output_path.exists()` loop of create_task
RECURSIVE NextFree(_, _, _, _, _)
NextFree(path, counter, stem, suffix, d) ==
    IF PathExists(path, d)
    THEN NextFree(NumberedName(stem, counter, suffix), counter + 1, stem, suffix, d)
    ELSE path

\* The output path create_task computes for `name` when the directory
\* holds the files `d`.
AllocatePath(name, d) ==
    LET first == sanitize_filename(name)
    IN NextFree(first, 1, PathStem(first), PathSuffix(first), d)

NoPath == <<"NoPath">>

\* A directory path: whether it is absolute, and its components in order.
\* DownloadManager.output_dir of the model is /dl.
OutputDir == [abs |-> TRUE, parts |-> << <<"d", "l">> >>]
NoDir == [abs |-> FALSE, parts |-> << <<"NoDir">> >>]

\* FileInfo.parent_folder as an extractor takes it from the remote listing;
\* <<>> stands for None and for the empty string, the values `if
\* file_info.parent_folder` skips.
ParentFolders ==
    { <<>>, <<"f">>, <<"a", "/", "b">>, <<"a", "/", ".", ".">>, <<".", ".">>,
      <<".", ".", "/", "x">>, <<"/", "e">> }

\* The components pathlib parses a string into: split at "/", empty
\* components and "." dropped, ".." kept.
RECURSIVE SplitParts(_, _)
SplitParts(s, cur) ==
    LET done == IF cur = <<>> \/ cur = <<".">> THEN <<>> ELSE <<cur>>
    IN IF s = <<>> THEN done
       ELSE IF Head(s) = "/" THEN done \o SplitParts(Tail(s), <<>>)
       ELSE SplitParts(Tail(s), Append(cur, Head(s)))

\* `target_dir / file_info.parent_folder`: an absolute right operand
\* replaces the left one.
JoinPath(dir, s) ==
    IF s # <<>> /\ Head(s) = "/"
    THEN [abs |-> TRUE, parts |-> SplitParts(s, <<>>)]
    ELSE [abs |-> dir.abs, parts |-> dir.parts \o SplitParts(s, <<>>)]

\* The target_dir create_task works with for a parent_folder label
TargetDirFor(label) == IF label # <<>> THEN JoinPath(OutputDir, label) ELSE OutputDir

\* The directory a path names: every ".." takes away the component before
\* it, and at the root stays at the root.
RECURSIVE Resolved(_, _)
Resolved(parts, acc) ==
    IF parts = <<>> THEN acc
    ELSE IF Head(parts) = <<".", ".">>
    THEN Resolved(Tail(parts), IF acc = <<>> THEN <<>> ELSE SubSeq(acc, 1, Len(acc) - 1))
    ELSE Resolved(Tail(parts), Append(acc, Head(parts)))

\* The file names extractors hand to create_task in the model.
FileNames ==
    { <<"a">>, <<"a", "_", "1">>, <<"a", "/", "1">>, <<"a", ".", "t">>,
      <<"a", ":", ".", "t">>, <<".", ".">>, <<".", ".", "/", "e">> }

\* Files the target directory may hold before any task is created.
InitialFiles == { <<"a">>, <<"a", ".", "t">> }

PathInit ==
    /\ disk \in SUBSET InitialFiles
    /\ fileName = [f \in Files |-> <<>>]
    /\ outPath = [f \in Files |-> NoPath]
    /\ targetDir = [f \in Files |-> NoDir]
    /\ writes = {}

\* create_task(file_info) for a file named `name`: synchronous, so each call
\* is one step; it creates nothing on disk.
CreateTask(f, name, label) ==
    /\ outPath[f] = NoPath
    /\ targetDir' = [targetDir EXCEPT ![f] = TargetDirFor(label)]
    /\ fileName' = [fileName EXCEPT ![f] = name]
    /\ outPath' = [outPath EXCEPT ![f] = AllocatePath(name, disk)]
    /\ UNCHANGED <<disk, writes>>
    /\ UNCHANGED notPath

\* The transfer of a created task opens its output path and writes to it.
TransferWrites(f) ==
    /\ outPath[f] # NoPath
    /\ <<outPath[f], f>> \notin writes
    /\ disk' = disk \cup {outPath[f]}
    /\ writes' = writes \cup {<<outPath[f], f>>}
    /\ UNCHANGED <<fileName, outPath, targetDir>>
    /\ UNCHANGED notPath

\* The files of one folder, created without a parent_folder label, contend
\* for the names of the output directory.
PathNext ==
    \/ \E f \in Files : \E name \in FileNames : CreateTask(f, name, <<>>)
    \/ \E f \in Files : TransferWrites(f)

\* create_task for files that carry a parent_folder label
FolderNext ==
    \E f \in Files : \E name \in InitialFiles : \E label \in ParentFolders :
        CreateTask(f, name, label)

(***************************************************************************)
(* HTTPClient: get / post / get_json / get_text through _with_retry        *)
(* Durations are counted in half seconds, the grain of the jitter of the   *)
(* first backoff.                                                          *)
(***************************************************************************)

Seconds(n) == 2 * n

\* The cap `60.0` of _calculate_backoff, in seconds
BackoffCapSeconds == 60

HttpMethods == {"get", "post", "get_json", "get_text"}

\* download_stream and get_file_info open session.get(...) / session.head(...)
\* themselves, inside `async with self._limiter`, without _with_retry.
DirectMethods == {"download_stream", "get_file_info"}

\* The methods whose body is `return await self._with_retry(...)`
UsesRetryWrapper(m) == m \in HttpMethods

\* get_json and get_text wrap the request in do_request(), which calls
\* resp.raise_for_status(), and so does download_stream; get and post pass
\* session.get(...) / session.post(...) themselves, on a session that does
\* not raise for a status, and get_file_info reads the headers of any status.
RaisesForStatus(m) == m \in {"get_json", "get_text", "download_stream"}

\* Retry-After header values: absent, not a number (an HTTP date), or a
\* number of seconds.
RetryAfterHeaders ==
    { [kind |-> "absent", v |-> 0], [kind |-> "text", v |-> 0],
      [kind |-> "num", v |-> 0], [kind |-> "num", v |-> 2],
      [kind |-> "num", v |-> 60], [kind |-> "num", v |-> 120] }

NoHeader == [kind |-> "absent", v |-> 0]

\* What one underlying request can meet: a response with a status, a
\* timeout (asyncio.TimeoutError) or a connection error (aiohttp.ClientError).
HttpResponses ==
    { [kind |-> "response", code |-> c, ra |-> NoHeader] : c \in {200, 404, 503} }
    \cup { [kind |-> "response", code |-> 429, ra |-> h] : h \in RetryAfterHeaders }
    \cup { [kind |-> k, code |-> 0, ra |-> NoHeader] : k \in {"timeout", "connerr"} }

\* The parsed Retry-After: `some` is FALSE for Python's None.
NoRetryAfter == [some |-> FALSE, v |-> 0]

\* _parse_retry_after: the header as seconds, None when absent or not a number
ParseRetryAfter(h) ==
    IF h.kind = "num" THEN [some |-> TRUE, v |-> Seconds(h.v)] ELSE NoRetryAfter

\* The values random.uniform(0, 0.5) * base_delay can take on the grid
JitterChoices(att) == 0..(Seconds(Pow2(att)) \div 2)

\* Mutant: the server's Retry-After is not used for the delay.
CalculateBackoff_Exponential(att, retry_after, jitter) ==
    Min(Seconds(Pow2(att)) + jitter, Seconds(BackoffCapSeconds))

\* _calculate_backoff(attempt, retry_after), with the random jitter drawn
CalculateBackoff(att, retry_after, jitter) ==
    IF retry_after.some
    THEN Min(retry_after.v, Seconds(BackoffCapSeconds))
    ELSE Min(Seconds(Pow2(att)) + jitter, Seconds(BackoffCapSeconds))

\* The exception an awaited request ends with, "none" when it returns.
ExceptionOf(m, resp) ==
    IF resp.kind = "timeout" THEN "TimeoutError"
    ELSE IF resp.kind = "connerr" THEN "ClientError"
    ELSE IF RaisesForStatus(m) /\ resp.code >= 400 THEN "ClientResponseError"
    ELSE "none"

\* `lambda e: isinstance(e, (aiohttp.ClientError, asyncio.TimeoutError))`;
\* ClientResponseError is a subclass of ClientError.
IsRetryable(exc) == exc \in {"ClientError", "ClientResponseError", "TimeoutError"}

NoError == [type |-> "none", retry_after |-> NoRetryAfter]
HttpError(ty) == [type |-> ty, retry_after |-> NoRetryAfter]

\* One pass through the try/except of _with_retry for exception `exc`
\* (status `code`, headers `hdr`) at attempt `att`: what the call does next.
WithRetryHandle(exc, code, hdr, att, jitter) ==
    IF exc = "none" THEN [next |-> "returned", dur |-> 0, err |-> NoError]
    ELSE IF exc = "ClientResponseError" /\ code = 429
    THEN IF att < http_max_retries
         THEN [next |-> "sleeping",
               dur |-> CalculateBackoff(att, ParseRetryAfter(hdr), jitter),
               err |-> NoError]
         ELSE [next |-> "raised", dur |-> 0,
               err |-> [type |-> "RateLimitError",
                        retry_after |-> ParseRetryAfter(hdr)]]
    ELSE IF ~IsRetryable(exc)
    THEN [next |-> "raised", dur |-> 0, err |-> HttpError(exc)]
    ELSE IF att < http_max_retries
    THEN [next |-> "sleeping",
          dur |-> CalculateBackoff(att, NoRetryAfter, jitter),
          err |-> NoError]
    ELSE [next |-> "raised", dur |-> 0, err |-> HttpError("RetriesExhausted")]

MaxHttpRetries == 3

HttpInit ==
    /\ http_max_retries \in 0..MaxHttpRetries
    /\ http_pc = "idle"
    /\ http_method = "none"
    /\ http_attempt = 0
    /\ http_awaited = FALSE
    /\ http_responses = <<>>
    /\ http_sleeps = <<>>
    /\ http_error = NoError

\* get / post / get_json / get_text is called: the awaitable is built once
\* and handed to _with_retry, whose loop starts at attempt 0.
HttpCall(m) ==
    /\ http_pc = "idle"
    /\ http_method' = m
    /\ http_pc' = "await"
    /\ UNCHANGED <<http_max_retries, http_attempt, http_awaited, http_responses,
                   http_sleeps, http_error>>
    /\ UNCHANGED notHttp

\* `result = await coro` on the first pass: the underlying request is made
\* and meets `resp`; the try/except then returns, raises or sleeps.
HttpAwaitFirst(resp, jitter) ==
    /\ http_pc = "await"
    /\ UsesRetryWrapper(http_method)
    /\ ~http_awaited
    /\ LET h == WithRetryHandle(ExceptionOf(http_method, resp), resp.code, resp.ra,
                                http_attempt, jitter)
       IN /\ http_awaited' = TRUE
          /\ http_responses' = Append(http_responses, resp)
          /\ http_pc' = h.next
          /\ http_error' = h.err
          /\ http_sleeps' =
               IF h.next = "sleeping"
               THEN Append(http_sleeps,
                           [attempt |-> http_attempt, after |-> resp, dur |-> h.dur])
               ELSE http_sleeps
    /\ UNCHANGED <<http_max_retries, http_method, http_attempt>>
    /\ UNCHANGED notHttp

\* `result = await coro` on a later pass: the same awaitable was awaited
\* before, so Python raises RuntimeError and no request is made.
HttpAwaitAgain(jitter) ==
    /\ http_pc = "await"
    /\ UsesRetryWrapper(http_method)
    /\ http_awaited
    /\ LET h == WithRetryHandle("RuntimeError", 0, NoHeader, http_attempt, jitter)
       IN /\ http_pc' = h.next
          /\ http_error' = h.err
          /\ http_sleeps' =
               IF h.next = "sleeping"
               THEN Append(http_sleeps,
                           [attempt |-> http_attempt,
                            after |-> [kind |-> "reuse", code |-> 0, ra |-> NoHeader],
                            dur |-> h.dur])
               ELSE http_sleeps
    /\ UNCHANGED <<http_max_retries, http_method, http_attempt, http_awaited,
                   http_responses>>
    /\ UNCHANGED notHttp

\* download_stream / get_file_info make their one request, which meets
\* `resp`: the method goes on with the response or the exception leaves it.
HttpDirectRequest(resp) ==
    /\ http_pc = "await"
    /\ ~UsesRetryWrapper(http_method)
    /\ http_responses' = Append(http_responses, resp)
    /\ LET exc == ExceptionOf(http_method, resp)
       IN IF exc = "none"
          THEN http_pc' = "returned" /\ http_error' = NoError
          ELSE http_pc' = "raised" /\ http_error' = HttpError(exc)
    /\ UNCHANGED <<http_max_retries, http_method, http_attempt, http_awaited,
                   http_sleeps>>
    /\ UNCHANGED notHttp

\* asyncio.sleep(backoff) returns and `continue` starts the next pass.
HttpBackoffEnds ==
    /\ http_pc = "sleeping"
    /\ http_attempt' = http_attempt + 1
    /\ http_pc' = "await"
    /\ UNCHANGED <<http_max_retries, http_method, http_awaited, http_responses,
                   http_sleeps, http_error>>
    /\ UNCHANGED notHttp

HttpNext ==
    \/ \E m \in HttpMethods \cup DirectMethods : HttpCall(m)
    \/ \E resp \in HttpResponses : \E j \in JitterChoices(http_attempt) :
          HttpAwaitFirst(resp, j)
    \/ \E j \in JitterChoices(http_attempt) : HttpAwaitAgain(j)
    \/ \E resp \in HttpResponses : HttpDirectRequest(resp)
    \/ HttpBackoffEnds

(***************************************************************************)
(* TaskRegistry: the table `tasks`                                         *)
(* A row holds url, output_dir, status, progress, error, created_at and    *)
(* updated_at. Every write is committed before the operation returns, so   *)
(* the table outlives close().                                             *)
(***************************************************************************)

NumIds == 2

\* The readings of the wall clock are 0..MaxClock
MaxClock == 2

ClockInit == clock = 0

\* The values uuid.uuid4() can return in the model.
TaskIds == 1..NumIds

TaskStatuses ==
    {"PENDING", "EXTRACTING", "DOWNLOADING", "COMPLETED", "FAILED", "CANCELLED"}

\* TaskStatus.<NAME>.value
StatusValue(s) ==
    CASE s = "PENDING" -> "pending"
      [] s = "EXTRACTING" -> "extracting"
      [] s = "DOWNLOADING" -> "downloading"
      [] s = "COMPLETED" -> "completed"
      [] s = "FAILED" -> "failed"
      [] s = "CANCELLED" -> "cancelled"

\* TaskStatus(value)
TaskStatusOf(v) == CHOOSE s \in TaskStatuses : StatusValue(s) = v

\* A progress dict is the sequence of its values: {} is <<>>.
EmptyProgress == <<>>
ProgressValues == {EmptyProgress, <<50>>}

\* json.dumps / json.loads of a progress dict, and the NULL column
JsonDumps(p) == <<"json", p>>
JsonLoads(text) == text[2]
NullText == <<"NULL">>

\* datetime.isoformat / datetime.fromisoformat
IsoFormat(t) == <<"iso", t>>
FromIsoFormat(text) == text[2]

\* An optional argument: `given` is FALSE when the caller left it out
\* (status=None, progress=None, error=_UNSET).
NotGiven(v) == [given |-> FALSE, v |-> v]
Given(v) == [given |-> TRUE, v |-> v]

StatusArgs == {NotGiven("PENDING")} \cup {Given(s) : s \in TaskStatuses}
ProgressArgs == {NotGiven(EmptyProgress)} \cup {Given(p) : p \in ProgressValues}
\* An error text is the sequence of its parts; Python's None is NoText.
NoText == <<>>
ErrorArgs == {NotGiven(NoText), Given(NoText), Given(<<"err">>)}

\* Mutant: the clock is read a second time for updated_at.
NewStamps_SecondReading(now) ==
    [created_at |-> IsoFormat(now), updated_at |-> IsoFormat(now + 1)]

\* `now = datetime.now()`, written to both timestamp columns
NewStamps(now) == [created_at |-> IsoFormat(now), updated_at |-> IsoFormat(now)]

\* The row create_task inserts
NewRow(url, output_dir) ==
    [url |-> url, output_dir |-> output_dir, status |-> StatusValue("PENDING"),
     progress |-> JsonDumps(EmptyProgress), error |-> NoText,
     created_at |-> NewStamps(clock).created_at,
     updated_at |-> NewStamps(clock).updated_at]

\* INSERT INTO tasks
DbInsert(d, id, row) == [i \in DOMAIN d \cup {id} |-> IF i = id THEN row ELSE d[i]]

\* Mutant: `error = ?` is always part of the statement.
DbUpdate_ErrorAlways(d, id, st, pr, er) ==
    IF id \notin DOMAIN d THEN d
    ELSE [d EXCEPT ![id] =
            [@ EXCEPT !.status = IF st.given THEN StatusValue(st.v) ELSE @,
                      !.progress = IF pr.given THEN JsonDumps(pr.v) ELSE @,
                      !.error = er.v,
                      !.updated_at = IsoFormat(clock)]]

\* UPDATE tasks SET ... WHERE task_id = ?, as update_task builds it
DbUpdate(d, id, st, pr, er) ==
    IF id \notin DOMAIN d THEN d
    ELSE [d EXCEPT ![id] =
            [@ EXCEPT !.status = IF st.given THEN StatusValue(st.v) ELSE @,
                      !.progress = IF pr.given THEN JsonDumps(pr.v) ELSE @,
                      !.error = IF er.given THEN er.v ELSE @,
                      !.updated_at = IsoFormat(clock)]]

\* DELETE FROM tasks WHERE task_id = ?
DbDelete(d, id) == [i \in DOMAIN d \ {id} |-> d[i]]

\* _row_to_task
RowToTask(id, row) ==
    [task_id |-> id, url |-> row.url, output_dir |-> row.output_dir,
     status |-> TaskStatusOf(row.status),
     progress |-> IF row.progress = NullText THEN EmptyProgress
                  ELSE JsonLoads(row.progress),
     error |-> row.error,
     created_at |-> FromIsoFormat(row.created_at),
     updated_at |-> FromIsoFormat(row.updated_at)]

\* Mutant: the lookup finds a task under every id.
HasTask_Always(id) == TRUE

\* get_task: the TaskInfo of a stored id; HasTask tells whether it is None
HasTask(id) == connected /\ id \in DOMAIN db

\* The TaskInfo get_task returns for a stored id
GetTask(id) == RowToTask(id, db[id])

\* Mutant: the filter forgets the CANCELLED status.
ListActive_CancelledShown ==
    IF ~connected THEN {}
    ELSE { RowToTask(id, db[id]) :
             id \in { i \in DOMAIN db :
                        db[i].status \notin { StatusValue("COMPLETED"),
                                              StatusValue("FAILED") } } }

\* list_active: the TaskInfos of the rows `WHERE status NOT IN (?, ?, ?)`
\* (their order, by created_at, is not modelled)
ListActive ==
    IF ~connected THEN {}
    ELSE { RowToTask(id, db[id]) :
             id \in { i \in DOMAIN db :
                        db[i].status \notin { StatusValue("COMPLETED"),
                                              StatusValue("FAILED"),
                                              StatusValue("CANCELLED") } } }

RegInit ==
    /\ connected = FALSE
    /\ db = <<>>

\* Mutant: the transaction is left open and lost.
Commit_Skipped(stored, changed) == stored

\* `await self._db.commit()` after the statement: the changed table is
\* what the store holds from then on.
Commit(stored, changed) == changed

\* What the callers know: nothing has been written yet.
CallerInit ==
    /\ written = <<>>
    /\ since_write = "same"

\* The TaskInfo a caller expects of a task it has just created
CreatedInfo(id, url, output_dir) ==
    [task_id |-> id, url |-> url, output_dir |-> output_dir,
     status |-> "PENDING", progress |-> EmptyProgress, error |-> NoText,
     created_at |-> clock, updated_at |-> clock]

\* The TaskInfo a caller expects after update_task(status, progress, error)
UpdatedInfo(info, st, pr, er) ==
    [info EXCEPT !.status = IF st.given THEN st.v ELSE @,
                 !.progress = IF pr.given THEN pr.v ELSE @,
                 !.error = IF er.given THEN er.v ELSE @,
                 !.updated_at = clock]

\* connect(): opens the store; the table is created if it is missing.
RegConnect ==
    /\ ~connected
    /\ connected' = TRUE
    /\ since_write' = IF since_write = "closed" THEN "reopened" ELSE since_write
    /\ UNCHANGED <<db, written>>
    /\ UNCHANGED notReg

\* close()
RegClose ==
    /\ connected
    /\ connected' = FALSE
    /\ since_write' = "closed"
    /\ UNCHANGED <<db, written>>
    /\ UNCHANGED notReg

\* create_task(url, output_dir) on a connected registry; uuid4 returns `id`.
\* (On a registry that is not connected it raises and changes nothing.)
RegCreateTask(id, url, output_dir) ==
    /\ connected
    /\ id \notin DOMAIN db
    /\ db' = Commit(db, DbInsert(db, id, NewRow(url, output_dir)))
    /\ written' = [i \in DOMAIN written \cup {id} |->
                      IF i = id THEN CreatedInfo(id, url, output_dir)
                      ELSE written[i]]
    /\ since_write' = "same"
    /\ UNCHANGED connected
    /\ UNCHANGED notReg

\* update_task(task_id, status, progress, error) on a connected registry
RegUpdateTask(id, st, pr, er) ==
    /\ connected
    /\ db' = Commit(db, DbUpdate(db, id, st, pr, er))
    /\ written' = IF id \in DOMAIN written
                  THEN [written EXCEPT ![id] = UpdatedInfo(@, st, pr, er)]
                  ELSE written
    /\ since_write' = "same"
    /\ UNCHANGED connected
    /\ UNCHANGED notReg

\* delete_task(task_id) on a connected registry
RegDeleteTask(id) ==
    /\ connected
    /\ db' = Commit(db, DbDelete(db, id))
    /\ written' = [i \in DOMAIN written \ {id} |-> written[i]]
    /\ since_write' = "same"
    /\ UNCHANGED connected
    /\ UNCHANGED notReg

\* update_task or delete_task on a registry that is not connected:
\* `if not self._db: return`, nothing happens.
RegCallNotConnected ==
    /\ ~connected
    /\ UNCHANGED <<regVars, callerVars>>
    /\ UNCHANGED notReg

\* Time passes: datetime.now() returns a later value from now on.
ClockTick ==
    /\ clock < MaxClock
    /\ clock' = clock + 1
    /\ UNCHANGED <<mgrVars, pathVars, httpVars, regVars, svcVars, xferVars,
                   batchVars, callerVars, pacerVars, streamVars, fdVars, limVars, busVars>>

RegNext ==
    \/ RegConnect
    \/ RegClose
    \/ \E id \in TaskIds : RegCreateTask(id, "url", "dir")
    \/ \E id \in TaskIds : \E st \in StatusArgs : \E pr \in ProgressArgs :
          \E er \in ErrorArgs : RegUpdateTask(id, st, pr, er)
    \/ \E id \in TaskIds : RegDeleteTask(id)
    \/ RegCallNotConnected

\* The registry with time passing; update_task is called with every choice
\* for error and with status and progress left out.
RegClockNext ==
    \/ ClockTick
    \/ RegConnect
    \/ RegClose
    \/ \E id \in TaskIds : RegCreateTask(id, "url", "dir")
    \/ \E id \in TaskIds : \E er \in ErrorArgs :
          RegUpdateTask(id, NotGiven("PENDING"), NotGiven(EmptyProgress), er)
    \/ \E id \in TaskIds : RegDeleteTask(id)
    \/ RegCallNotConnected

(***************************************************************************)
(* DownloadService: download, _run_download, _finalize_download,           *)
(* _handle_progress and cancel, over the TaskRegistry above                *)
(***************************************************************************)

\* The download() calls of the model: one call, beside which cancel() calls
\* and the scheduled registry updates run.
Downloads == {1}

\* The DownloadResults manager.download_task can return for one file
FileResults ==
    { DownloadResult_succeeded, DownloadResult_failed("err"),
      DownloadResult_cancelled }

\* The result lists manager.download_url can return: one result per
\* extracted file, for one or two files
ResultLists == UNION { [1..n -> FileResults] : n \in {1, 2} }

\* The progress snapshot a callback carries
CallbackProgress == <<50>>

\* The task.progress.status values a progress callback sees
CallbackStatuses == {"DOWNLOADING", "PAUSED"}

NoTask == 0

\* The most _safe_update tasks that wait at one time
MaxPending == 2

\* Mutant: the awaited registry write overtakes the scheduled ones.
EarlierUpdatesApplied_Any(q) == TRUE

\* The order of the registry writes of one event loop. asyncio.create_task
\* puts _safe_update on the loop's ready queue, which runs in the order of
\* registration, so each scheduled update has handed its UPDATE to the
\* connection before the coroutine that awaits download_url is resumed; the
\* connection runs its statements one after the other in that order. The
\* write this coroutine then awaits is applied after the scheduled ones.
EarlierUpdatesApplied(q) == q = <<>>

\* Mutant: only the first result is looked at.
FailedResults_FirstOnly(results) == SelectSeq(SubSeq(results, 1, 1), LAMBDA r : ~r.success)

\* `failed = [r for r in results if not r.success]`
FailedResults(results) == SelectSeq(results, LAMBDA r : ~r.success)

\* `"; ".join(r.error or "Unknown" for r in failed)`, as the list of the parts
JoinedErrors(failed) ==
    [i \in 1..Len(failed) |->
        IF failed[i].error = None THEN "Unknown" ELSE failed[i].error]

\* The status and error _finalize_download writes for `results`
FinalUpdate(results) ==
    IF FailedResults(results) # <<>>
    THEN [status |-> Given("FAILED"),
          error |-> Given(JoinedErrors(FailedResults(results)))]
    ELSE [status |-> Given("COMPLETED"), error |-> NotGiven(NoText)]

\* The events _finalize_download emits for `results`
FinalEvents(id, results) ==
    { [event |-> IF results[i].success THEN "DOWNLOAD_COMPLETE" ELSE "DOWNLOAD_ERROR",
       task_id |-> id, file |-> i,
       error |-> IF results[i].success THEN None
                 ELSE IF results[i].error = None THEN "Download failed"
                 ELSE results[i].error] : i \in 1..Len(results) }

SvcInit ==
    /\ svc_pc = [d \in Downloads |-> "idle"]
    /\ svc_task = [d \in Downloads |-> NoTask]
    /\ svc_results = [d \in Downloads |-> <<>>]
    /\ pending = <<>>
    /\ cancel_pc = "idle"
    /\ cancel_id = NoTask
    /\ cancel_ret = FALSE
    /\ events = {}

\* download(): `await self._task_registry.create_task(url, output_dir)`;
\* on a registry that is not connected create_task raises.
SvcCreate(d, id) ==
    /\ svc_pc[d] = "idle"
    /\ IF connected
       THEN /\ id \notin DOMAIN db
            /\ db' = DbInsert(db, id, NewRow("url", "dir"))
            /\ svc_task' = [svc_task EXCEPT ![d] = id]
            /\ svc_pc' = [svc_pc EXCEPT ![d] = "created"]
       ELSE /\ svc_pc' = [svc_pc EXCEPT ![d] = "raised"]
            /\ UNCHANGED <<db, svc_task>>
    /\ UNCHANGED <<connected, svc_results, pending, cancel_pc, cancel_id,
                   cancel_ret, events>>
    /\ UNCHANGED notSvc

\* download(): `await update_task(task_id, status=EXTRACTING)`, after which
\* _run_download awaits manager.download_url.
SvcExtracting(d) ==
    /\ svc_pc[d] = "created"
    /\ db' = DbUpdate(db, svc_task[d], Given("EXTRACTING"),
                      NotGiven(EmptyProgress), NotGiven(NoText))
    /\ svc_pc' = [svc_pc EXCEPT ![d] = "running"]
    /\ UNCHANGED <<connected, svc_task, svc_results, pending, cancel_pc,
                   cancel_id, cancel_ret, events>>
    /\ UNCHANGED notSvc

\* The update_task call _handle_progress schedules: the status is passed
\* only when the file's status is DOWNLOADING.
ProgressUpdate(id, st, pr) ==
    [task_id |-> id,
     status |-> IF st = "DOWNLOADING" THEN Given("DOWNLOADING")
                ELSE NotGiven("PENDING"),
     progress |-> Given(pr)]

\* The event _handle_progress emits, none unless the file is DOWNLOADING
ProgressEvents(id, st) ==
    IF st = "DOWNLOADING"
    THEN { [event |-> "DOWNLOAD_PROGRESS", task_id |-> id, file |-> 0,
            error |-> None] }
    ELSE {}

\* _handle_progress(task_id, dl_task), called by a running transfer: the
\* registry update is scheduled as a task of its own, the event is emitted.
SvcHandleProgress(d, st, pr) ==
    /\ svc_pc[d] = "running"
    /\ Len(pending) < MaxPending
    /\ pending' = Append(pending, ProgressUpdate(svc_task[d], st, pr))
    /\ events' = events \cup ProgressEvents(svc_task[d], st)
    /\ UNCHANGED <<regVars, svc_pc, svc_task, svc_results, cancel_pc, cancel_id,
                   cancel_ret>>
    /\ UNCHANGED notSvc

\* The oldest scheduled _safe_update runs:
\* update_task(task_id, status, progress).
SvcSafeUpdate ==
    /\ pending # <<>>
    /\ pending' = Tail(pending)
    /\ db' = DbUpdate(db, Head(pending).task_id, Head(pending).status,
                      Head(pending).progress, NotGiven(NoText))
    /\ UNCHANGED <<connected, svc_pc, svc_task, svc_results, cancel_pc, cancel_id,
                   cancel_ret, events>>
    /\ UNCHANGED notSvc

\* manager.download_url returns `results`; _finalize_download starts and
\* awaits its update_task.
SvcDownloadUrlReturns(d, results) ==
    /\ svc_pc[d] = "running"
    /\ svc_results' = [svc_results EXCEPT ![d] = results]
    /\ svc_pc' = [svc_pc EXCEPT ![d] = "finalizing"]
    /\ UNCHANGED <<regVars, svc_task, pending, cancel_pc, cancel_id, cancel_ret,
                   events>>
    /\ UNCHANGED notSvc

\* _finalize_download: its update_task is applied, then one event per result
\* is emitted and download() returns the task id.
SvcFinalize(d) ==
    /\ svc_pc[d] = "finalizing"
    /\ EarlierUpdatesApplied(pending)
    /\ LET u == FinalUpdate(svc_results[d])
       IN db' = DbUpdate(db, svc_task[d], u.status, NotGiven(EmptyProgress), u.error)
    /\ events' = events \cup FinalEvents(svc_task[d], svc_results[d])
    /\ svc_pc' = [svc_pc EXCEPT ![d] = "returned"]
    /\ UNCHANGED <<connected, svc_task, svc_results, pending, cancel_pc,
                   cancel_id, cancel_ret>>
    /\ UNCHANGED notSvc

\* manager.download_url raises (no extractor, an extraction error): the
\* except block of _run_download awaits update_task(FAILED, error=str(e)).
SvcDownloadUrlRaises(d) ==
    /\ svc_pc[d] = "running"
    /\ svc_pc' = [svc_pc EXCEPT ![d] = "failing"]
    /\ UNCHANGED <<regVars, svc_task, svc_results, pending, cancel_pc, cancel_id,
                   cancel_ret, events>>
    /\ UNCHANGED notSvc

\* The except block of _run_download: the update is applied, DOWNLOAD_ERROR
\* is emitted and the exception is raised again.
SvcFail(d) ==
    /\ svc_pc[d] = "failing"
    /\ EarlierUpdatesApplied(pending)
    /\ db' = DbUpdate(db, svc_task[d], Given("FAILED"), NotGiven(EmptyProgress),
                      Given(<<"exc">>))
    /\ events' = events \cup { [event |-> "DOWNLOAD_ERROR", task_id |-> svc_task[d],
                                file |-> 0, error |-> "exc"] }
    /\ svc_pc' = [svc_pc EXCEPT ![d] = "raised"]
    /\ UNCHANGED <<connected, svc_task, svc_results, pending, cancel_pc,
                   cancel_id, cancel_ret>>
    /\ UNCHANGED notSvc

\* cancel(task_id): `await get_task(task_id)`; an unknown id returns False.
SvcCancelLookup(id) ==
    /\ cancel_pc = "idle"
    /\ cancel_id' = id
    /\ IF HasTask(id)
       THEN cancel_pc' = "found" /\ UNCHANGED cancel_ret
       ELSE cancel_pc' = "idle" /\ cancel_ret' = FALSE
    /\ UNCHANGED <<regVars, svc_pc, svc_task, svc_results, pending, events>>
    /\ UNCHANGED notSvc

\* cancel(task_id): update_task(CANCELLED) is applied, DOWNLOAD_ERROR is
\* emitted and True is returned.
SvcCancelUpdate ==
    /\ cancel_pc = "found"
    /\ db' = DbUpdate(db, cancel_id, Given("CANCELLED"), NotGiven(EmptyProgress),
                      NotGiven(NoText))
    /\ events' = events \cup { [event |-> "DOWNLOAD_ERROR", task_id |-> cancel_id,
                                file |-> 0, error |-> "Cancelled"] }
    /\ cancel_pc' = "idle"
    /\ cancel_ret' = TRUE
    /\ UNCHANGED <<connected, cancel_id, svc_pc, svc_task, svc_results, pending>>
    /\ UNCHANGED notSvc

SvcNext ==
    \/ RegConnect
    \/ \E d \in Downloads : \E id \in TaskIds : SvcCreate(d, id)
    \/ \E d \in Downloads : SvcExtracting(d)
    \/ \E d \in Downloads : \E st \in CallbackStatuses :
          SvcHandleProgress(d, st, CallbackProgress)
    \/ SvcSafeUpdate
    \/ \E d \in Downloads : \E results \in ResultLists : SvcDownloadUrlReturns(d, results)
    \/ \E d \in Downloads : SvcFinalize(d)
    \/ \E d \in Downloads : SvcDownloadUrlRaises(d)
    \/ \E d \in Downloads : SvcFail(d)
    \/ \E id \in TaskIds : SvcCancelLookup(id)
    \/ SvcCancelUpdate

\* A download() call on its own: no cancel() runs beside it.
DownloadCallNext ==
    \/ RegConnect
    \/ \E d \in Downloads : \E id \in TaskIds : SvcCreate(d, id)
    \/ \E d \in Downloads : SvcExtracting(d)
    \/ \E d \in Downloads : \E st \in CallbackStatuses :
          SvcHandleProgress(d, st, CallbackProgress)
    \/ SvcSafeUpdate
    \/ \E d \in Downloads : \E results \in ResultLists : SvcDownloadUrlReturns(d, results)
    \/ \E d \in Downloads : SvcFinalize(d)
    \/ \E d \in Downloads : SvcDownloadUrlRaises(d)
    \/ \E d \in Downloads : SvcFail(d)

(***************************************************************************)
(* One download() call with its file transfer spelled out, beside cancel() *)
(* The transfer is FileDownloader's streaming write: a chunk is appended,   *)
(* the progress callback is invoked and the cooperative cancel flag is      *)
(* checked. DownloadManager.download_task builds the FileDownloader as a    *)
(* local, and no code of the service or the manager calls its cancel().     *)
(***************************************************************************)

\* The chunks of the file being transferred
NumChunks == 3

XferInit ==
    /\ cancel_event = [d \in Downloads |-> FALSE]
    /\ chunks = [d \in Downloads |-> 0]
    /\ dl_status = [d \in Downloads |-> "PENDING"]

\* The status after a chunk: CANCELLED when the flag is set, COMPLETED after
\* the last chunk, DOWNLOADING otherwise.
StatusAfterChunk(flag, n) ==
    IF flag THEN "CANCELLED"
    ELSE IF n = NumChunks THEN "COMPLETED"
    ELSE "DOWNLOADING"

\* One step of the streaming write: append the chunk, call the progress
\* callback (DownloadService._handle_progress), check the cancel flag.
TransferChunk(d) ==
    /\ svc_pc[d] = "running"
    /\ dl_status[d] \in {"PENDING", "DOWNLOADING"}
    /\ chunks[d] < NumChunks
    /\ chunks' = [chunks EXCEPT ![d] = @ + 1]
    /\ pending' = Append(pending,
                         ProgressUpdate(svc_task[d], "DOWNLOADING", <<chunks[d] + 1>>))
    /\ events' = events \cup ProgressEvents(svc_task[d], "DOWNLOADING")
    /\ dl_status' = [dl_status EXCEPT
                        ![d] = StatusAfterChunk(cancel_event[d], chunks[d] + 1)]
    /\ UNCHANGED <<regVars, svc_pc, svc_task, svc_results, cancel_pc, cancel_id,
                   cancel_ret, cancel_event>>
    /\ UNCHANGED notXfer

\* The DownloadResult download_task returns for a transfer that ended `st`
ResultOfTransfer(st) ==
    IF st = "COMPLETED" THEN DownloadResult_succeeded
    ELSE IF st = "CANCELLED" THEN DownloadResult_cancelled
    ELSE DownloadResult_failed("err")

\* The transfer is over: download_task returns, download_url returns the
\* one-element list and _finalize_download starts.
TransferEnds(d) ==
    /\ dl_status[d] \in {"COMPLETED", "CANCELLED"}
    /\ SvcDownloadUrlReturns(d, <<ResultOfTransfer(dl_status[d])>>)

CancelNext ==
    \/ RegConnect
    \/ \E d \in Downloads : \E id \in TaskIds : SvcCreate(d, id)
    \/ \E d \in Downloads : SvcExtracting(d)
    \/ \E d \in Downloads : TransferChunk(d)
    \/ SvcSafeUpdate
    \/ \E d \in Downloads : TransferEnds(d)
    \/ \E d \in Downloads : SvcFinalize(d)
    \/ \E id \in TaskIds : SvcCancelLookup(id)
    \/ SvcCancelUpdate

(***************************************************************************)
(* Pacer and wait_for_retry_with_pacer                                      *)
(* A response text is the sequence of its words; durations are counted in  *)
(* milliseconds.                                                           *)
(***************************************************************************)

\* Pacer.__init__ defaults and the default max_wait of parse_and_wait
MinBackoffMs == 400
MaxBackoffMs == 5000
FloodSleepMs == 30000
JitterPercent == 10
MaxWaitSeconds == 300

\* The largest max_retries a call is given
MaxPacerRetries == 2

\* The response texts of the model
ResponseTexts ==
    { <<"IP", "address", "has", "been", "locked">>,
      <<"too", "many", "connections">>,
      <<"wait", "before", "retrying", "60", "seconds">>,
      <<"please", "wait", "30", "seconds">>,
      <<"please", "wait", "10", "minutes">>,
      <<"countdown", "0">>,
      <<"not", "found">> }

\* str.lower() of a word
Lower(w) ==
    CASE w = "IP" -> "ip"
      [] w = "Bytes" -> "bytes"
      [] w = "H1" -> "h1"
      [] OTHER -> w

\* The word sequences the flood_patterns of detect_flood_ip_lock match
FloodPhrases ==
    { <<"ip", "lock">>, <<"ip", "locked">>, <<"ip", "address", "locked">>,
      <<"ip", "has", "been", "locked">>,
      <<"ip", "address", "has", "been", "locked">>,
      <<"too", "many", "connections">>, <<"too", "many", "downloads">>,
      <<"too", "many", "requests">>,
      <<"download", "limit", "reached">>, <<"download", "limit", "exceeded">>,
      <<"flood", "control">>, <<"request", "limit">>, <<"rate", "limit">>,
      <<"wait", "before">>, <<"wait", "until">> }

\* re.search of one phrase: the phrase occurs in the text
Occurs(phrase, text) ==
    \E i \in 1..(Len(text) - Len(phrase) + 1) :
        \A k \in 1..Len(phrase) : text[i + k - 1] = phrase[k]

\* Mutant: no text is taken for a flood page.
detect_flood_ip_lock_Never(html) == FALSE

\* Pacer.detect_flood_ip_lock
detect_flood_ip_lock(html) ==
    LET html_lower == [i \in 1..Len(html) |-> Lower(html[i])]
    IN \E phrase \in FloodPhrases : Occurs(phrase, html_lower)

\* int() of the numbers that occur in the texts
NumberWords == {"0", "10", "30", "60"}

IntOf(w) ==
    CASE w = "0" -> 0 [] w = "10" -> 10 [] w = "30" -> 30 [] w = "60" -> 60

WaitWords == {"wait", "countdown"}
MinuteWords == {"minute", "minutes", "min"}

\* The index of the first number after position i, 0 when there is none
RECURSIVE FirstNumberAfter(_, _)
FirstNumberAfter(text, i) ==
    IF i >= Len(text) THEN 0
    ELSE IF text[i + 1] \in NumberWords THEN i + 1
    ELSE FirstNumberAfter(text, i + 1)

\* The index of the first wait word from position i on that a number
\* follows, 0 when there is none
RECURSIVE FirstWaitFrom(_, _)
FirstWaitFrom(text, i) ==
    IF i > Len(text) THEN 0
    ELSE IF Lower(text[i]) \in WaitWords /\ FirstNumberAfter(text, i) # 0 THEN i
    ELSE FirstWaitFrom(text, i + 1)

NoWait == -1

\* Pacer.parse_wait_time: the seconds of "wait ... <n> <unit>", NoWait for
\* None
parse_wait_time(html) ==
    LET w == FirstWaitFrom(html, 1)
    IN IF w = 0 THEN NoWait
       ELSE LET n == FirstNumberAfter(html, w)
                value == IntOf(html[n])
            IN IF n < Len(html) /\ html[n + 1] \in MinuteWords
               THEN value * 60 ELSE value

\* What one handler did: whether it reports a wait, and the sleeps it made
Handled(slept) == [handled |-> TRUE, sleeps |-> slept]
NotHandled == [handled |-> FALSE, sleeps |-> <<>>]

\* Pacer.parse_and_wait(html, max_wait)
parse_and_wait(html, max_wait) ==
    LET wait_time == parse_wait_time(html)
    IN IF wait_time = NoWait THEN NotHandled
       ELSE IF wait_time > max_wait THEN NotHandled
       ELSE IF wait_time <= 0 THEN NotHandled
       ELSE Handled(<<[kind |-> "wait", dur |-> (wait_time + 1) * 1000]>>)

\* Pacer.handle_rate_limited: handle_flood_ip_lock sleeps flood_sleep
handle_rate_limited(response_text) ==
    IF detect_flood_ip_lock(response_text)
    THEN Handled(<<[kind |-> "flood", dur |-> FloodSleepMs]>>)
    ELSE parse_and_wait(response_text, MaxWaitSeconds)

\* The percentages random.uniform(-jitter_factor, jitter_factor) takes
PacerJitters == {-JitterPercent, 0, JitterPercent}

\* Pacer.calculate_backoff(attempt) with the jitter drawn
calculate_backoff(att, jitter) ==
    (Min(MinBackoffMs * Pow2(att), MaxBackoffMs) * (100 + jitter)) \div 100

\* How one `await http_client.get(url)` can end: it returns, or it raises
\* an exception without a `response` attribute, or one whose response text
\* cannot be read, or one whose response has a text.
NotRead == <<"NotRead">>
GetOutcomes ==
    { [kind |-> "ok", text |-> NotRead], [kind |-> "bare", text |-> NotRead],
      [kind |-> "unreadable", text |-> NotRead] }
    \cup { [kind |-> "response", text |-> t] : t \in ResponseTexts }

\* Mutant: a successful GET leaves the attempt counter as it is.
PacerReset_Kept(count) == count

\* Pacer.reset
PacerReset(count) == 0

PacerInit ==
    /\ pacer_max_retries \in 0..MaxPacerRetries
    /\ pacer_retryable \in BOOLEAN
    /\ pacer_pc = "get"
    /\ pacer_attempt = 0
    /\ pacer_count = 0
    /\ pacer_log = <<>>
    /\ pacer_ret = "none"
    /\ pacer_delays = <<>>

\* http_client.get(url) returns: pacer.reset() and `return True`.
PacerGetReturns ==
    /\ pacer_pc = "get"
    /\ pacer_attempt <= pacer_max_retries
    /\ pacer_count' = PacerReset(pacer_count)
    /\ pacer_log' = Append(pacer_log, [ok |-> TRUE, text |-> NotRead, sleeps |-> <<>>])
    /\ pacer_pc' = "returned"
    /\ pacer_ret' = "True"
    /\ UNCHANGED <<pacer_max_retries, pacer_retryable, pacer_attempt, pacer_delays>>
    /\ UNCHANGED <<mgrVars, pathVars, httpVars, regVars, svcVars, xferVars,
                   batchVars, callerVars, clockVars, streamVars, fdVars, limVars, busVars>>

\* http_client.get(url) raises `o`: the except block runs up to its return
\* or to the sleep it starts.
PacerGetRaises(o, jitter) ==
    /\ pacer_pc = "get"
    /\ pacer_attempt <= pacer_max_retries
    /\ o.kind # "ok"
    /\ IF pacer_attempt = pacer_max_retries \/ ~pacer_retryable
       THEN /\ pacer_log' = Append(pacer_log,
                   [ok |-> FALSE, text |-> NotRead, sleeps |-> <<>>])
            /\ pacer_pc' = "returned"
            /\ pacer_ret' = "False"
            /\ UNCHANGED pacer_count
       ELSE IF o.kind = "response" /\ handle_rate_limited(o.text).handled
       THEN /\ pacer_log' = Append(pacer_log,
                   [ok |-> FALSE, text |-> o.text,
                    sleeps |-> handle_rate_limited(o.text).sleeps])
            /\ pacer_pc' = "sleeping"
            /\ UNCHANGED <<pacer_count, pacer_ret>>
       ELSE /\ pacer_log' = Append(pacer_log,
                   [ok |-> FALSE, text |-> o.text,
                    sleeps |-> <<[kind |-> "backoff",
                                  dur |-> calculate_backoff(pacer_count, jitter)]>>])
            /\ pacer_count' = pacer_count + 1
            /\ pacer_pc' = "sleeping"
            /\ UNCHANGED pacer_ret
    /\ UNCHANGED <<pacer_max_retries, pacer_retryable, pacer_attempt, pacer_delays>>
    /\ UNCHANGED <<mgrVars, pathVars, httpVars, regVars, svcVars, xferVars,
                   batchVars, callerVars, clockVars, streamVars, fdVars, limVars, busVars>>

\* The sleep is over: the loop goes to its next attempt.
PacerSleepEnds ==
    /\ pacer_pc = "sleeping"
    /\ pacer_attempt' = pacer_attempt + 1
    /\ pacer_pc' = "get"
    /\ UNCHANGED <<pacer_max_retries, pacer_retryable, pacer_count, pacer_log,
                   pacer_ret, pacer_delays>>
    /\ UNCHANGED <<mgrVars, pathVars, httpVars, regVars, svcVars, xferVars,
                   batchVars, callerVars, clockVars, streamVars, fdVars, limVars, busVars>>

PacerNext ==
    \/ PacerGetReturns
    \/ \E o \in GetOutcomes : \E jitter \in PacerJitters : PacerGetRaises(o, jitter)
    \/ PacerSleepEnds

\* The largest attempt below the float limit, and the number of direct
\* calls of calculate_backoff
MaxBackoffAttempt == 6
MaxDelays == 2

\* sys.float_info.max_exp: 2**attempt is a Python int, and float * int
\* converts the int to a float, which raises OverflowError from 2**1024 on
FloatMaxExponent == 1024

\* `self.min_backoff * (2**attempt)` raises OverflowError
BaseDelayOverflows(att) == att >= FloatMaxExponent

BackoffAttempts == 0..MaxBackoffAttempt \cup {FloatMaxExponent}

\* pacer.calculate_backoff(att) is called with an explicit attempt; the call
\* raises, or returns final_delay (capped_delay is recorded with it).
PacerCalculateBackoff(att, jitter) ==
    /\ Len(pacer_delays) < MaxDelays
    /\ pacer_delays' = Append(pacer_delays,
           IF BaseDelayOverflows(att)
           THEN [attempt |-> att, raised |-> "OverflowError", capped |-> 0,
                 delay |-> 0]
           ELSE [attempt |-> att, raised |-> "none",
                 capped |-> Min(MinBackoffMs * Pow2(att), MaxBackoffMs),
                 delay |-> calculate_backoff(att, jitter)])
    /\ UNCHANGED <<pacer_max_retries, pacer_retryable, pacer_pc, pacer_attempt,
                   pacer_count, pacer_log, pacer_ret>>
    /\ UNCHANGED <<mgrVars, pathVars, httpVars, regVars, svcVars, xferVars,
                   batchVars, callerVars, clockVars, streamVars, fdVars, limVars, busVars>>

BackoffNext ==
    \E att \in BackoffAttempts : \E jitter \in PacerJitters :
        PacerCalculateBackoff(att, jitter)

(***************************************************************************)
(* HTTPClient.download_stream                                              *)
(* Sizes are counted in units of one byte block.                           *)
(***************************************************************************)

\* The largest body and the chunk_size argument
MaxBody == 4
ChunkSize == 2

Absent == -1

\* The responses the stream request can meet. `content_length` is the
\* Content-Length header (Absent when there is none) and `body` the number of
\* bytes resp.content delivers. The client's default headers ask for
\* "Accept-Encoding: gzip, deflate, br" and the session, built with
\* ClientSession(...) in start(), decodes the body: for an identity body the
\* delivered bytes are the Content-Length, for an encoded one Content-Length
\* counts the encoded bytes.
StreamResponses ==
    { [code |-> 503, content_length |-> Absent, encoding |-> "identity", body |-> 0] }
    \cup { [code |-> 200, content_length |-> Absent, encoding |-> "identity", body |-> b] :
              b \in 0..MaxBody }
    \cup { [code |-> 200, content_length |-> b, encoding |-> "identity", body |-> b] :
              b \in 0..MaxBody }
    \cup { [code |-> 200, content_length |-> l, encoding |-> "gzip", body |-> b] :
              l \in 1..MaxBody, b \in 0..MaxBody }

NoResponse == [code |-> 0, content_length |-> Absent, encoding |-> "identity", body |-> 0]

\* `int(resp.headers.get("content-length", 0))`
ContentLength(resp) ==
    IF resp.content_length = Absent THEN 0 ELSE resp.content_length

\* Mutant: the timeout of a chunk read is swallowed and the loop goes on.
AfterChunkTimeout_Swallowed == "streaming"

\* `except asyncio.TimeoutError: raise TimeoutError(...)`: the exception
\* leaves the generator
AfterChunkTimeout == "raised"

StreamInit ==
    /\ st_timeout \in BOOLEAN
    /\ st_error = "none"
    /\ st_pc = "idle"
    /\ st_resp = NoResponse
    /\ st_body = 0
    /\ st_total = 0
    /\ st_downloaded = 0
    /\ st_yields = <<>>

\* The generator is started: the request is made, raise_for_status() runs,
\* total and downloaded are set.
StreamOpens(resp) ==
    /\ st_pc = "idle"
    /\ st_resp' = resp
    /\ IF resp.code >= 400
       THEN /\ st_pc' = "raised"
            /\ st_error' = "ClientResponseError"
            /\ UNCHANGED <<st_body, st_total, st_downloaded, st_yields>>
       ELSE /\ st_pc' = "streaming"
            /\ st_body' = resp.body
            /\ st_total' = ContentLength(resp)
            /\ st_downloaded' = 0
            /\ UNCHANGED <<st_yields, st_error>>
    /\ UNCHANGED st_timeout
    /\ UNCHANGED <<mgrVars, pathVars, httpVars, regVars, svcVars, xferVars,
                   batchVars, callerVars, clockVars, pacerVars, fdVars, limVars, busVars>>

\* `chunk = await chunk_iter.__anext__()` delivers n bytes:
\* `downloaded += len(chunk)` and the tuple is yielded.
StreamChunk(n) ==
    /\ st_pc = "streaming"
    /\ n >= 1 /\ n <= st_body /\ n <= ChunkSize
    /\ st_body' = st_body - n
    /\ st_downloaded' = st_downloaded + n
    /\ st_yields' = Append(st_yields,
                           [len |-> n, downloaded |-> st_downloaded + n,
                            total |-> st_total])
    /\ UNCHANGED <<st_pc, st_resp, st_total, st_timeout, st_error>>
    /\ UNCHANGED <<mgrVars, pathVars, httpVars, regVars, svcVars, xferVars,
                   batchVars, callerVars, clockVars, pacerVars, fdVars, limVars, busVars>>

\* The body is exhausted: StopAsyncIteration ends the loop.
StreamEnds ==
    /\ st_pc = "streaming"
    /\ st_body = 0
    /\ st_pc' = "ended"
    /\ UNCHANGED <<st_resp, st_body, st_total, st_downloaded, st_yields, st_timeout,
                   st_error>>
    /\ UNCHANGED <<mgrVars, pathVars, httpVars, regVars, svcVars, xferVars,
                   batchVars, callerVars, clockVars, pacerVars, fdVars, limVars, busVars>>

\* A chunk read exceeds the configured per-chunk timeout: asyncio.wait_for
\* raises asyncio.TimeoutError, in place of which TimeoutError is raised.
StreamTimesOut ==
    /\ st_pc = "streaming"
    /\ st_timeout
    /\ st_body > 0
    /\ st_error' = "TimeoutError"
    /\ st_pc' = AfterChunkTimeout
    /\ UNCHANGED <<st_resp, st_body, st_total, st_downloaded, st_yields, st_timeout>>
    /\ UNCHANGED <<mgrVars, pathVars, httpVars, regVars, svcVars, xferVars,
                   batchVars, callerVars, clockVars, pacerVars, fdVars, limVars, busVars>>

StreamNext ==
    \/ \E resp \in StreamResponses : StreamOpens(resp)
    \/ \E n \in 1..ChunkSize : StreamChunk(n)
    \/ StreamEnds
    \/ StreamTimesOut

(***************************************************************************)
(* FileDownloader.download(task), called by download_task for one task:    *)
(* resume negotiation, chunked write, chunk-level retry, cancellation and  *)
(* checksum verification                                                   *)
(***************************************************************************)

MaxSize == 2
MaxChunkRetries == 1

\* The task whose transfer is followed.
FdTask == 1

\* The Accept-Ranges header values a server answers the HEAD request with;
\* "" stands for a response without the header.
AcceptRangesHeaders == {"bytes", "Bytes", "none", ""}

\* A server that announces byte ranges honours a Range header; any other
\* server ignores it and sends the whole body.
ServerHonoursRange(h) == h \in {"bytes", "Bytes"}

\* Mutant: every server is taken to support ranges.
AcceptRanges_Always(h) == TRUE

\* get_file_info: `resp.headers.get("accept-ranges", "").lower() == "bytes"`
AcceptRanges(h) == Lower(h) = "bytes"

\* FileDownloader.HASH_ALGORITHMS
HASH_ALGORITHMS == {"md5", "sha1", "sha256", "sha512"}

\* FileInfo.checksum and FileInfo.checksum_type as an extractor gives them
FileInfoChecksums ==
    { [checksum |-> None, checksum_type |-> "md5"],
      [checksum |-> "h1", checksum_type |-> "md5"],
      [checksum |-> "H1", checksum_type |-> "md5"],
      [checksum |-> "h2", checksum_type |-> "md5"],
      [checksum |-> "h2", checksum_type |-> "crc32"] }

\* The hex digest of a file of n bytes: the complete remote content hashes
\* to "h1", anything shorter or longer to "h0".
FileHash(n) == IF n = fd_remote.size THEN "h1" ELSE "h0"

\* Mutant: a differing digest is accepted.
VerifyFileChecksum_AlwaysPasses(n, expected, algo) == TRUE

\* _verify_file_checksum: an unknown algorithm cannot be verified and
\* passes; otherwise the digests are compared without regard to case.
\* FALSE stands for `raise ChecksumMismatchError(expected, actual, algo)`.
VerifyFileChecksum(n, expected, algo) ==
    IF algo \notin HASH_ALGORITHMS THEN TRUE
    ELSE FileHash(n) = Lower(expected)

ChecksumMismatchError(expected, actual, algo) ==
    [type |-> "ChecksumMismatchError", expected |-> expected, actual |-> actual,
     checksum_type |-> algo]

NotRaised == [type |-> None]
NoStart == [found |-> 0, resumed |-> FALSE, offset |-> Absent, kept |-> 0,
            downloaded |-> 0]

FdInit ==
    /\ fd_cfg \in [enable_resume : BOOLEAN, verify_checksum : BOOLEAN]
    /\ fd_remote \in [size : 1..MaxSize, header : AcceptRangesHeaders]
    /\ fd_info \in FileInfoChecksums
    /\ fd_file \in 0..(fd_remote.size - 1)
    /\ fd_pc = "idle"
    /\ fd_runs = 0
    /\ fd_start = NoStart
    /\ fd_left = 0
    /\ fd_downloaded = 0
    /\ fd_chunk_retries = 0
    /\ fd_cancel = FALSE
    /\ fd_verified = FALSE
    /\ fd_raised = NotRaised

\* What download_task reads when download() has returned.
FdOutcome ==
    [success |-> status[FdTask] = "COMPLETED", status |-> status[FdTask],
     error |-> error[FdTask]]

FdSetStatus(st, err) ==
    /\ status' = [status EXCEPT ![FdTask] = st]
    /\ error' = [error EXCEPT ![FdTask] = err]
    /\ UNCHANGED <<max_concurrent, max_retries, sem, pc, attempt, retries, outcomes,
                   sleeps, result>>

FdOthers ==
    <<pathVars, httpVars, regVars, svcVars, xferVars, batchVars, callerVars,
      clockVars, pacerVars, streamVars, limVars, busVars>>

\* download(task) is entered: the probe answers, the resume decision is
\* taken and the stream request is issued from the chosen offset.
FdBegin ==
    /\ pc[FdTask] = "in_download"
    /\ fd_pc \in {"idle", "returned"}
    /\ fd_runs = Len(outcomes[FdTask])
    /\ fd_runs' = fd_runs + 1
    /\ LET resume == /\ fd_cfg.enable_resume
                     /\ fd_file > 0
                     /\ AcceptRanges(fd_remote.header)
           offset == IF resume THEN fd_file ELSE 0
           kept == IF resume THEN fd_file ELSE 0
           body == IF ServerHonoursRange(fd_remote.header)
                   THEN fd_remote.size - offset ELSE fd_remote.size
       IN /\ fd_start' = [found |-> fd_file, resumed |-> resume, offset |-> offset,
                          kept |-> kept, downloaded |-> offset]
          /\ fd_file' = kept
          /\ fd_downloaded' = offset
          /\ IF body <= 0
             THEN \* nothing is left to send from this offset: the request fails
                  /\ FdSetStatus("FAILED", "err")
                  /\ fd_pc' = "returned"
                  /\ fd_left' = 0
             ELSE /\ FdSetStatus("DOWNLOADING", None)
                  /\ fd_pc' = "stream"
                  /\ fd_left' = body
    /\ fd_chunk_retries' = 0
    /\ fd_verified' = FALSE
    /\ fd_raised' = NotRaised
    /\ UNCHANGED <<fd_cfg, fd_remote, fd_info, fd_cancel>>
    /\ UNCHANGED FdOthers

\* download(task) is entered and fails before a byte is written: the probe
\* fails or the disk has too little free space.
FdFailsEarly ==
    /\ pc[FdTask] = "in_download"
    /\ fd_pc \in {"idle", "returned"}
    /\ fd_runs = Len(outcomes[FdTask])
    /\ fd_runs' = fd_runs + 1
    /\ FdSetStatus("FAILED", "Insufficient disk space")
    /\ fd_pc' = "returned"
    /\ fd_start' = NoStart
    /\ fd_chunk_retries' = 0
    /\ fd_verified' = FALSE
    /\ fd_raised' = NotRaised
    /\ UNCHANGED <<fd_cfg, fd_remote, fd_info, fd_file, fd_left, fd_downloaded, fd_cancel>>
    /\ UNCHANGED FdOthers

\* One chunk is appended to the file; the cancellation flag is checked
\* after it.
FdChunk ==
    /\ fd_pc = "stream"
    /\ fd_left > 0
    /\ fd_file' = fd_file + 1
    /\ fd_downloaded' = fd_downloaded + 1
    /\ fd_left' = fd_left - 1
    /\ IF fd_cancel
       THEN /\ FdSetStatus("CANCELLED", error[FdTask])
            /\ fd_pc' = "returned"
       ELSE /\ UNCHANGED mgrVars
            /\ UNCHANGED fd_pc
    /\ UNCHANGED <<fd_cfg, fd_remote, fd_info, fd_runs, fd_start, fd_chunk_retries,
                   fd_cancel, fd_verified, fd_raised>>
    /\ UNCHANGED FdOthers

\* A chunk read times out or breaks: the call pauses for a chunk-level
\* retry, or fails when these retries are used up.
FdChunkFails ==
    /\ fd_pc = "stream"
    /\ fd_left > 0
    /\ IF fd_chunk_retries < MaxChunkRetries
       THEN /\ FdSetStatus("PAUSED", error[FdTask])
            /\ fd_pc' = "paused"
            /\ fd_chunk_retries' = fd_chunk_retries + 1
       ELSE /\ FdSetStatus("FAILED", "err")
            /\ fd_pc' = "returned"
            /\ UNCHANGED fd_chunk_retries
    /\ UNCHANGED <<fd_cfg, fd_remote, fd_info, fd_runs, fd_file, fd_start, fd_left,
                   fd_downloaded, fd_cancel, fd_verified, fd_raised>>
    /\ UNCHANGED FdOthers

\* The chunk-level retry goes on from the bytes already written.
FdChunkRetry ==
    /\ fd_pc = "paused"
    /\ FdSetStatus("DOWNLOADING", error[FdTask])
    /\ fd_pc' = "stream"
    /\ UNCHANGED <<fd_cfg, fd_remote, fd_info, fd_runs, fd_file, fd_start, fd_left,
                   fd_downloaded, fd_chunk_retries, fd_cancel, fd_verified, fd_raised>>
    /\ UNCHANGED FdOthers

\* The stream has delivered its last chunk.
FdStreamEnds ==
    /\ fd_pc = "stream"
    /\ fd_left = 0
    /\ FdSetStatus("VERIFYING", error[FdTask])
    /\ fd_pc' = "verify"
    /\ UNCHANGED <<fd_cfg, fd_remote, fd_info, fd_runs, fd_file, fd_start, fd_left,
                   fd_downloaded, fd_chunk_retries, fd_cancel, fd_verified, fd_raised>>
    /\ UNCHANGED FdOthers

\* The completed file is verified when verification is enabled and the
\* FileInfo carries a checksum; download() returns.
FdVerify ==
    /\ fd_pc = "verify"
    /\ fd_verified' = TRUE
    /\ fd_pc' = "returned"
    /\ IF /\ fd_cfg.verify_checksum
          /\ fd_info.checksum # None
          /\ ~VerifyFileChecksum(fd_file, fd_info.checksum, fd_info.checksum_type)
       THEN /\ fd_raised' = ChecksumMismatchError(fd_info.checksum, FileHash(fd_file),
                                                  fd_info.checksum_type)
            /\ FdSetStatus("FAILED", "Checksum mismatch")
       ELSE /\ FdSetStatus("COMPLETED", error[FdTask])
            /\ UNCHANGED fd_raised
    /\ UNCHANGED <<fd_cfg, fd_remote, fd_info, fd_runs, fd_file, fd_start, fd_left,
                   fd_downloaded, fd_chunk_retries, fd_cancel>>
    /\ UNCHANGED FdOthers

\* FileDownloader.cancel(): the cancellation flag is set while the call runs.
FdCancel ==
    /\ fd_pc \in {"stream", "paused"}
    /\ ~fd_cancel
    /\ fd_cancel' = TRUE
    /\ UNCHANGED <<fd_cfg, fd_remote, fd_info, fd_pc, fd_runs, fd_file, fd_start, fd_left,
                   fd_downloaded, fd_chunk_retries, fd_verified, fd_raised>>
    /\ UNCHANGED mgrVars
    /\ UNCHANGED FdOthers

\* download(task) has returned: download_task goes on after its await.
FdReturns ==
    /\ fd_pc = "returned"
    /\ fd_runs = Len(outcomes[FdTask]) + 1
    /\ AttemptEnds(FdTask, FdOutcome)

TransferNext ==
    \/ CallDownloadTask(FdTask)
    \/ AcquireAndStart(FdTask)
    \/ BackoffEnds(FdTask)
    \/ FdBegin
    \/ FdFailsEarly
    \/ FdChunk
    \/ FdChunkFails
    \/ FdChunkRetry
    \/ FdStreamEnds
    \/ FdVerify
    \/ FdCancel
    \/ FdReturns

(***************************************************************************)
(* HTTPClient._limiter: the request starts of concurrent callers of one    *)
(* client. Time is counted in half seconds.                                *)
(***************************************************************************)

NumCallers == 2
MaxRps == 2
MaxLimClock == 3
TicksPerSecond == 2

Callers == 1..NumCallers

\* `async with self._limiter`: download_stream and get_file_info enter the
\* limiter before they open their request; get, post, get_json and get_text
\* hand their request to _with_retry and nowhere name the limiter.
UsesLimiter(m) == m \in DirectMethods

\* The times of the second that ends with time t
LastSecond(t) == { u \in 0..t : u > t - TicksPerSecond }

\* AsyncLimiter(requests_per_second, 1.0).acquire() returns at once when the
\* budget of the last second is not used up, and waits otherwise.
LimiterHasRoom ==
    Cardinality({ a \in rl_acquired : a[2] \in LastSecond(rl_now) }) < rl_rps

LimInit ==
    /\ rl_rps \in 1..MaxRps
    /\ rl_now = 0
    /\ rl_pc = [c \in Callers |-> "idle"]
    /\ rl_method = [c \in Callers |-> "none"]
    /\ rl_acquired = {}
    /\ rl_starts = {}

LimOthers ==
    <<mgrVars, pathVars, httpVars, regVars, svcVars, xferVars, batchVars, callerVars,
      clockVars, pacerVars, streamVars, fdVars, busVars>>

\* A caller calls method m of the shared client; each caller of the model
\* makes one call.
LimCall(c, m) ==
    /\ rl_pc[c] = "idle"
    /\ rl_pc' = [rl_pc EXCEPT ![c] = "called"]
    /\ rl_method' = [rl_method EXCEPT ![c] = m]
    /\ UNCHANGED <<rl_rps, rl_now, rl_acquired, rl_starts>>
    /\ UNCHANGED LimOthers

\* The method starts its request: session.get / post / head is entered, by
\* the limited methods after the limiter has let them in.
LimRequestStarts(c) ==
    /\ rl_pc[c] = "called"
    /\ IF UsesLimiter(rl_method[c])
       THEN /\ LimiterHasRoom
            /\ rl_acquired' = rl_acquired \cup {<<c, rl_now>>}
       ELSE UNCHANGED rl_acquired
    /\ rl_starts' = rl_starts \cup {<<c, rl_now>>}
    /\ rl_pc' = [rl_pc EXCEPT ![c] = "started"]
    /\ UNCHANGED <<rl_rps, rl_now, rl_method>>
    /\ UNCHANGED LimOthers

\* The request is answered and the method returns.
LimReturns(c) ==
    /\ rl_pc[c] = "started"
    /\ rl_pc' = [rl_pc EXCEPT ![c] = "done"]
    /\ UNCHANGED <<rl_rps, rl_now, rl_method, rl_acquired, rl_starts>>
    /\ UNCHANGED LimOthers

\* Half a second passes.
LimTick ==
    /\ rl_now < MaxLimClock
    /\ rl_now' = rl_now + 1
    /\ UNCHANGED <<rl_rps, rl_pc, rl_method, rl_acquired, rl_starts>>
    /\ UNCHANGED LimOthers

LimNext ==
    \/ \E c \in Callers : \E m \in HttpMethods \cup DirectMethods : LimCall(c, m)
    \/ \E c \in Callers : LimRequestStarts(c)
    \/ \E c \in Callers : LimReturns(c)
    \/ LimTick

(***************************************************************************)
(* EventBus: subscribe, unsubscribe and emit with plain (synchronous)      *)
(* callbacks, which may themselves subscribe, unsubscribe or raise         *)
(***************************************************************************)

BusEvents == {"download_progress", "download_complete"}
Callbacks == {"f", "g", "h"}

\* list.remove(c) under contextlib.suppress(ValueError): the first
\* occurrence is taken out, a list without c stays as it is.
RECURSIVE RemoveFirst(_, _)
RemoveFirst(list, c) ==
    IF list = <<>> THEN <<>>
    ELSE IF Head(list) = c THEN Tail(list)
    ELSE <<Head(list)>> \o RemoveFirst(Tail(list), c)

\* A list of the model holds at most as many subscriptions as there are
\* callbacks.
ListFull(list) == Len(list) >= Cardinality(Callbacks)

\* What a called callback does: it returns, it raises, or it makes a
\* subscribe or unsubscribe call on the bus and returns.
CallbackEffects ==
    [op : {"none"}, event : {"download_progress"}, cb : {"f"}, raises : BOOLEAN]
    \cup [op : {"subscribe", "unsubscribe"}, event : BusEvents, cb : Callbacks,
          raises : {FALSE}]

\* The subscriber lists after the effect of a callback
SubsAfter(sb, eff) ==
    CASE eff.op = "subscribe" -> [sb EXCEPT ![eff.event] = Append(@, eff.cb)]
      [] eff.op = "unsubscribe" -> [sb EXCEPT ![eff.event] = RemoveFirst(@, eff.cb)]
      [] OTHER -> sb

\* `callbacks = self._subscribers.get(event, [])`: the loop runs over the
\* list object of the event itself, as it is at each step.
IteratedList(sb, e) == sb[e]

\* Mutant: the first exception ends the delivery.
IndexAfterCall_StopOnRaise(i, n, raised) == IF raised THEN n ELSE i + 1

\* The list iterator after a call: `except Exception` logs and the loop
\* goes on with the next position.
IndexAfterCall(i, n, raised) == i + 1

BusInit ==
    /\ subs = [e \in BusEvents |-> <<>>]
    /\ em_pc = "idle"
    /\ em_event = "download_progress"
    /\ em_index = 0
    /\ em_snapshot = <<>>
    /\ em_called = <<>>
    /\ em_logged = <<>>
    /\ em_changed = FALSE

BusOthers ==
    <<mgrVars, pathVars, httpVars, regVars, svcVars, xferVars, batchVars, callerVars,
      clockVars, pacerVars, streamVars, fdVars, limVars>>

\* subscribe(event, callback), called while no emit runs
BusSubscribe(e, c) ==
    /\ em_pc = "idle"
    /\ ~ListFull(subs[e])
    /\ subs' = [subs EXCEPT ![e] = Append(@, c)]
    /\ UNCHANGED <<em_pc, em_event, em_index, em_snapshot, em_called, em_logged, em_changed>>
    /\ UNCHANGED BusOthers

\* unsubscribe(event, callback), called while no emit runs
BusUnsubscribe(e, c) ==
    /\ em_pc = "idle"
    /\ subs' = [subs EXCEPT ![e] = RemoveFirst(@, c)]
    /\ UNCHANGED <<em_pc, em_event, em_index, em_snapshot, em_called, em_logged, em_changed>>
    /\ UNCHANGED BusOthers

\* emit(event, data) is called: the for loop is set up.
EmitStarts(e) ==
    /\ em_pc = "idle"
    /\ em_pc' = "delivering"
    /\ em_event' = e
    /\ em_index' = 0
    /\ em_snapshot' = subs[e]
    /\ em_called' = <<>>
    /\ em_logged' = <<>>
    /\ em_changed' = FALSE
    /\ UNCHANGED subs
    /\ UNCHANGED BusOthers

\* One pass of the loop: the iterator gives the callback at its position,
\* the callback is called, has its effect and returns or raises; an
\* exception is logged.
EmitCalls(eff) ==
    /\ em_pc = "delivering"
    /\ LET list == IteratedList(subs, em_event)
       IN /\ em_index < Len(list)
          /\ (eff.op = "subscribe" => ~ListFull(subs[eff.event]))
          /\ em_called' = Append(em_called, list[em_index + 1])
          /\ em_logged' = IF eff.raises THEN Append(em_logged, list[em_index + 1])
                          ELSE em_logged
          /\ em_index' = IndexAfterCall(em_index, Len(list), eff.raises)
    /\ subs' = SubsAfter(subs, eff)
    /\ em_changed' = (em_changed \/ subs'[em_event] # subs[em_event])
    /\ UNCHANGED <<em_pc, em_event, em_snapshot>>
    /\ UNCHANGED BusOthers

\* The iterator is exhausted: emit returns.
EmitReturns ==
    /\ em_pc = "delivering"
    /\ em_index >= Len(IteratedList(subs, em_event))
    /\ em_pc' = "returned"
    /\ UNCHANGED <<subs, em_event, em_index, em_snapshot, em_called, em_logged, em_changed>>
    /\ UNCHANGED BusOthers

BusNext ==
    \/ \E e \in BusEvents : \E c \in Callbacks : BusSubscribe(e, c)
    \/ \E e \in BusEvents : \E c \in Callbacks : BusUnsubscribe(e, c)
    \/ \E e \in BusEvents : EmitStarts(e)
    \/ \E eff \in CallbackEffects : EmitCalls(eff)
    \/ EmitReturns

(***************************************************************************)
(* Specifications                                                          *)
(***************************************************************************)

\* A component that takes no part in a specification rests in one fixed
\* initial state of its own.
MgrRest == MgrInit /\ max_concurrent = 1 /\ max_retries = 0
PathRest == PathInit /\ disk = {}
HttpRest == HttpInit /\ http_max_retries = 0
RegRest == RegInit
SvcRest == SvcInit
XferRest == XferInit
BatchRest == BatchInit
CallerRest == CallerInit
ClockRest == ClockInit
PacerRest == PacerInit /\ pacer_max_retries = 0 /\ pacer_retryable
StreamRest == StreamInit /\ st_timeout = FALSE
FdRest ==
    /\ fd_cfg = [enable_resume |-> TRUE, verify_checksum |-> TRUE]
    /\ fd_remote = [size |-> 1, header |-> ""]
    /\ fd_info = [checksum |-> None, checksum_type |-> "md5"]
    /\ FdInit
LimRest == LimInit /\ rl_rps = 1
BusRest == BusInit

InitManager == MgrInit /\ PathRest /\ HttpRest /\ RegRest /\ SvcRest /\ XferRest /\ BatchRest
    /\ CallerRest /\ ClockRest /\ PacerRest /\ StreamRest /\ FdRest /\ LimRest /\ BusRest
InitPaths == PathInit /\ MgrRest /\ HttpRest /\ RegRest /\ SvcRest /\ XferRest /\ BatchRest
    /\ CallerRest /\ ClockRest /\ PacerRest /\ StreamRest /\ FdRest /\ LimRest /\ BusRest
InitHttp == HttpInit /\ MgrRest /\ PathRest /\ RegRest /\ SvcRest /\ XferRest /\ BatchRest
    /\ CallerRest /\ ClockRest /\ PacerRest /\ StreamRest /\ FdRest /\ LimRest /\ BusRest
InitRegistry ==
    /\ RegInit /\ CallerInit /\ MgrRest /\ PathRest /\ HttpRest /\ SvcRest
    /\ XferRest /\ BatchRest /\ ClockRest /\ PacerRest /\ StreamRest /\ FdRest /\ LimRest /\ BusRest
InitService == RegInit /\ SvcInit /\ MgrRest /\ PathRest /\ HttpRest /\ XferRest /\ BatchRest
    /\ CallerRest /\ ClockRest /\ PacerRest /\ StreamRest /\ FdRest /\ LimRest /\ BusRest

SpecManager == InitManager /\ [][MgrNext]_vars

SpecManagerExits == InitManager /\ [][MgrExitNext]_vars

InitFolders == InitPaths /\ disk = {}

SpecFolders == InitFolders /\ [][FolderNext]_vars

SpecPaths == InitPaths /\ [][PathNext]_vars

SpecHttp == InitHttp /\ [][HttpNext]_vars

SpecRegistry == InitRegistry /\ [][RegNext]_vars

InitRegistryClock ==
    /\ RegInit /\ CallerInit /\ ClockInit /\ MgrRest /\ PathRest /\ HttpRest
    /\ SvcRest /\ XferRest /\ BatchRest /\ PacerRest /\ StreamRest /\ FdRest /\ LimRest /\ BusRest

SpecRegistryClock == InitRegistryClock /\ [][RegClockNext]_vars

SpecService == InitService /\ [][SvcNext]_vars

SpecDownloadCall == InitService /\ [][DownloadCallNext]_vars

InitBatch ==
    /\ MgrInit /\ BatchInit /\ PathRest /\ HttpRest /\ RegRest /\ SvcRest
    /\ XferRest /\ CallerRest /\ ClockRest /\ PacerRest /\ StreamRest /\ FdRest /\ LimRest /\ BusRest

SpecBatch == InitBatch /\ [][BatchNext]_vars

InitPacer ==
    /\ PacerInit /\ MgrRest /\ PathRest /\ HttpRest /\ RegRest /\ SvcRest
    /\ XferRest /\ BatchRest /\ CallerRest /\ ClockRest /\ StreamRest /\ FdRest /\ LimRest /\ BusRest

SpecPacer == InitPacer /\ [][PacerNext]_vars

InitBackoff ==
    /\ PacerRest /\ MgrRest /\ PathRest /\ HttpRest /\ RegRest /\ SvcRest
    /\ XferRest /\ BatchRest /\ CallerRest /\ ClockRest /\ StreamRest /\ FdRest /\ LimRest /\ BusRest

SpecBackoff == InitBackoff /\ [][BackoffNext]_vars

InitStream ==
    /\ StreamInit /\ MgrRest /\ PathRest /\ HttpRest /\ RegRest /\ SvcRest
    /\ XferRest /\ BatchRest /\ CallerRest /\ ClockRest /\ PacerRest /\ FdRest /\ LimRest /\ BusRest

SpecStream == InitStream /\ [][StreamNext]_vars

\* One download_task call with the transfer it drives. download_task builds
\* the FileDownloader with the manager's enable_resume and leaves
\* verify_checksum at its default, True.
InitTransfer ==
    /\ MgrInit /\ max_concurrent = 1 /\ FdInit /\ fd_cfg.verify_checksum /\ PathRest /\ HttpRest /\ RegRest
    /\ SvcRest /\ XferRest /\ BatchRest /\ CallerRest /\ ClockRest /\ PacerRest
    /\ StreamRest /\ LimRest /\ BusRest

InitLimiter ==
    /\ LimInit /\ MgrRest /\ PathRest /\ HttpRest /\ RegRest /\ SvcRest /\ XferRest
    /\ BatchRest /\ CallerRest /\ ClockRest /\ PacerRest /\ StreamRest /\ FdRest
    /\ BusRest

SpecLimiter == InitLimiter /\ [][LimNext]_vars

InitBus ==
    /\ BusInit /\ MgrRest /\ PathRest /\ HttpRest /\ RegRest /\ SvcRest /\ XferRest
    /\ BatchRest /\ CallerRest /\ ClockRest /\ PacerRest /\ StreamRest /\ FdRest
    /\ LimRest

SpecBus == InitBus /\ [][BusNext]_vars

SpecTransfer == InitTransfer /\ [][TransferNext]_vars

\* One download() with its transfer and concurrent cancel() calls; every
\* coroutine that can run is eventually run by the event loop.
InitCancel ==
    /\ RegInit /\ SvcInit /\ XferInit /\ MgrRest /\ PathRest /\ HttpRest
    /\ BatchRest /\ CallerRest /\ ClockRest /\ PacerRest /\ StreamRest /\ FdRest /\ LimRest /\ BusRest

SpecCancel == InitCancel /\ [][CancelNext]_vars /\ WF_vars(CancelNext)

(***************************************************************************)
(* Claims about DownloadManager.download_task                              *)
(***************************************************************************)

InDownload == {t \in Tasks : pc[t] = "in_download"}

\* The number of FileDownloader.download calls task t has made so far.
Runs(t) == Len(outcomes[t]) + (IF pc[t] = "in_download" THEN 1 ELSE 0)

\* C1: at every moment the number of tasks inside a FileDownloader.download
\* attempt is at most max_concurrent.
C1_BoundedConcurrency == Cardinality(InDownload) <= max_concurrent

\* C1 witness: every permit is in use by a running attempt while another
\* download_task call waits at the semaphore.
C1_Witness ==
    /\ Cardinality(InDownload) = max_concurrent
    /\ \E t \in Tasks : pc[t] = "acquire"

\* C2: a download_task call runs FileDownloader.download at most
\* max_retries + 1 times; when every attempt failed without cancellation it
\* ran it exactly max_retries + 1 times and returned a failed result.
C2_AttemptBudget ==
    \A t \in Tasks :
        /\ Runs(t) <= max_retries + 1
        /\ (pc[t] = "done" /\ \A i \in 1..Len(outcomes[t]) : outcomes[t][i] = "fail")
              => /\ Len(outcomes[t]) = max_retries + 1
                 /\ result[t].kind = "failed"
                 /\ ~result[t].success

\* C2 witness: a call with a retry budget of at least one that used all of
\* it on failing attempts and returned.
C2_Witness ==
    \E t \in Tasks :
        /\ max_retries >= 1
        /\ pc[t] = "done"
        /\ Len(outcomes[t]) = max_retries + 1
        /\ \A i \in 1..Len(outcomes[t]) : outcomes[t][i] = "fail"

\* C3: an attempt that ends with status CANCELLED is the last one: the call
\* has returned a cancelled result, slept only after the earlier failed
\* attempts, and left the status CANCELLED.
C3_CancelShortCircuits ==
    \A t \in Tasks : \A i \in 1..Len(outcomes[t]) :
        outcomes[t][i] = "cancel"
          => /\ i = Len(outcomes[t])
             /\ pc[t] = "done"
             /\ result[t] = DownloadResult_cancelled
             /\ status[t] = "CANCELLED"
             /\ Len(sleeps[t]) = i - 1

\* C3 witness: a first attempt was cancelled while retry budget remained.
C3_Witness ==
    \E t \in Tasks :
        /\ max_retries >= 1
        /\ outcomes[t] = <<"cancel">>
        /\ result[t].kind = "cancelled"

\* Every attempt of the finished call of task t failed without cancellation.
Exhausted(t) ==
    /\ pc[t] = "done"
    /\ outcomes[t] # <<>>
    /\ \A i \in 1..Len(outcomes[t]) : outcomes[t][i] = "fail"

\* C13: a download_task call that exhausted its retries returned a result
\* with success = false whose error is the last attempt's error text, or
\* "Max retries exceeded" when the task has none; never a success and never
\* an empty error.
C13_ExhaustionCarriesError ==
    \A t \in Tasks :
        Exhausted(t) =>
            /\ ~result[t].success
            /\ result[t].error \notin {None, ""}
            /\ result[t].error =
                  IF error[t] \in {None, ""} THEN "Max retries exceeded"
                  ELSE error[t]

\* C13 witness: after a retry, one call ended with the error text of its
\* last attempt and another with the default text.
C13_Witness ==
    \E t, u \in Tasks :
        /\ Exhausted(t) /\ Exhausted(u)
        /\ Len(outcomes[t]) >= 2
        /\ error[t] = "err" /\ result[t].error = "err"
        /\ error[u] \in {None, ""} /\ result[u].error = "Max retries exceeded"

\* The positions in which a download_task call is inside the `async with`
\* block, and those in which the call has ended or has not begun
InsideBlock == {"in_download", "sleeping"}
NotRunning == {"idle", "done", "raised", "cancelled"}

\* C33: every step by which a download_task call leaves the `async with`
\* block (a returned result, an exception of the downloader, a cancellation
\* during an attempt or during the backoff sleep) frees one permit, and
\* whenever no call is running all max_concurrent permits are free.
C33_PermitsConserved ==
    /\ []((\A t \in Tasks : pc[t] \in NotRunning) => sem = max_concurrent)
    /\ [][\A t \in Tasks :
            (pc[t] \in InsideBlock /\ pc'[t] \in NotRunning) => sem' = sem + 1]_vars

\* All calls have ended, all permits are free: one call was cancelled in
\* its backoff sleep, one ended by an exception, one returned.
C33_Witness ==
    /\ \A t \in Tasks : pc[t] \in NotRunning \ {"idle"}
    /\ sem = max_concurrent
    /\ \E t \in Tasks : pc[t] = "cancelled" /\ Len(sleeps[t]) = attempt[t] + 1
    /\ \E t \in Tasks : pc[t] = "raised"
    /\ \E t \in Tasks : pc[t] = "done"

\* The tasks inside the `async with self._semaphore` block
Holding == {t \in Tasks : pc[t] \in {"in_download", "sleeping"}}

\* C27: every task between its first attempt and the return of
\* download_task holds exactly one permit, also while it sleeps between
\* attempts, and a waiting call enters the block only when fewer than
\* max_concurrent tasks hold one.
C27_PermitHeldThroughBackoff ==
    /\ [](sem = max_concurrent - Cardinality(Holding))
    /\ [][\A t \in Tasks :
            (pc[t] = "acquire" /\ pc'[t] = "in_download")
                => Cardinality(Holding) < max_concurrent]_vars

\* C27 witness: every permit is held, one of them by a task that only
\* sleeps before its retry, while another call waits at the semaphore.
C27_Witness ==
    /\ sem = 0
    /\ \E t, u \in Tasks :
          /\ pc[t] = "sleeping"
          /\ pc[u] = "acquire"
    /\ \A t \in Tasks : pc[t] # "in_download"

\* One step of task t's retry loop is in the order the loop prescribes.
RetryStepInOrder(t) ==
    /\ (pc[t] = "in_download" /\ outcomes'[t] # outcomes[t]
           /\ Last(outcomes'[t]) = "fail" /\ attempt[t] < max_retries)
          => /\ pc'[t] = "sleeping"
             /\ sleeps'[t] = Append(sleeps[t], Pow2(attempt[t]))
             /\ status'[t] = "FAILED"
             /\ attempt'[t] = attempt[t]
    /\ (pc[t] = "sleeping" /\ pc'[t] # "sleeping")
          => /\ pc'[t] = "in_download"
             /\ status'[t] = "PENDING"
             /\ error'[t] = None
             /\ attempt'[t] = attempt[t] + 1
             /\ sleeps'[t] = sleeps[t]
    /\ (attempt'[t] # attempt[t]) => pc[t] = "sleeping"
    /\ (pc[t] = "in_download" /\ outcomes'[t] # outcomes[t]
           /\ Last(outcomes'[t]) = "fail" /\ attempt[t] >= max_retries)
          => /\ pc'[t] = "done"
             /\ sleeps'[t] = sleeps[t]
             /\ status'[t] = "FAILED"
             /\ error'[t] = "err" => result'[t].error = "err"

\* C28: a failed, non-cancelled attempt a < max_retries is followed by a
\* sleep of 2^a seconds during which status and error are as the attempt
\* left them; the end of the sleep sets PENDING, clears the error and starts
\* attempt a + 1; the last attempt is followed by no sleep and no clearing.
C28_SleepThenResetThenRetry ==
    [][\A t \in Tasks : RetryStepInOrder(t)]_vars

\* C28 witness: a task slept 1 and 2 seconds, is in its third attempt with
\* the status PENDING and no error.
C28_Witness ==
    \E t \in Tasks :
        /\ pc[t] = "in_download"
        /\ attempt[t] = 2
        /\ sleeps[t] = <<1, 2>>
        /\ status[t] = "PENDING"
        /\ error[t] = None

(***************************************************************************)
(* Claims about DownloadManager.create_task                                *)
(***************************************************************************)

\* C4: two distinct tasks created with the same file name in the same
\* directory never hold the same output path, so no path is written by
\* two tasks.
C4_DistinctPaths ==
    /\ \A f, g \in Files :
          (f # g /\ outPath[f] # NoPath /\ outPath[g] # NoPath
             /\ fileName[f] = fileName[g])
            => outPath[f] # outPath[g]
    /\ \A w1, w2 \in writes : w1[1] = w2[1] => w1[2] = w2[2]

\* The name create_task tries as its k-th numbered name for `first`.
Numbered(first, k) == PathStem(first) \o <<"_", Digits[k]>> \o PathSuffix(first)

\* C34: a create_task call returns the sanitized name when no such path
\* exists; otherwise it returns stem_N+extension for the smallest N >= 1
\* whose path does not exist; in both cases the returned path does not
\* exist when it is allocated.
C34_SmallestFreeName ==
    [][\A f \in Files :
          (outPath[f] = NoPath /\ outPath'[f] # NoPath) =>
             LET first == sanitize_filename(fileName'[f])
                 p == outPath'[f]
             IN /\ ~PathExists(p, disk)
                /\ IF ~PathExists(first, disk) THEN p = first
                   ELSE \E k \in 1..Len(Digits) :
                          /\ p = Numbered(first, k)
                          /\ \A j \in 1..(k - 1) : PathExists(Numbered(first, j), disk) ]_vars

\* A file named a.t is created while a.t and a_1.t exist: it gets a_2.t.
C34_Witness ==
    \E f \in Files :
        /\ fileName[f] = <<"a", ".", "t">>
        /\ outPath[f] = <<"a", "_", "2", ".", "t">>
        /\ {<<"a", ".", "t">>, <<"a", "_", "1", ".", "t">>} \subseteq disk
        /\ <<"a", "_", "2", ".", "t">> \notin disk

\* Directory p is dir or lies below it.
IsInside(p, dir) ==
    LET n == Resolved(p.parts, <<>>)
        d == Resolved(dir.parts, <<>>)
    IN /\ p.abs = dir.abs
       /\ Len(n) >= Len(d)
       /\ SubSeq(n, 1, Len(d)) = d

\* C35: the directory create_task puts a file in is the output directory
\* or lies below it, whatever the file's parent_folder label is.
C35_ParentFolderStaysInside ==
    \A f \in Files : outPath[f] # NoPath => IsInside(targetDir[f], OutputDir)

\* The text of path p holds the sequence ".."
ContainsDotDot(p) == \E i \in 1..(Len(p) - 1) : p[i] = "." /\ p[i + 1] = "."

\* target_dir / p is an entry of the target directory: p is one component,
\* free of separators, and not a name of the directory or of its parent.
InsideTargetDir(p) ==
    /\ p \notin DirectoryNames
    /\ \A i \in 1..Len(p) : p[i] \notin {"/", "\\"}

\* C18: whatever the file name, path-traversal names included, the output
\* path create_task allocates holds no ".." and lies inside the target
\* directory.
C18_NoTraversalInPath ==
    \A f \in Files :
        outPath[f] # NoPath =>
            /\ ~ContainsDotDot(outPath[f])
            /\ InsideTargetDir(outPath[f])

(***************************************************************************)
(* Claims about HTTPClient._with_retry                                     *)
(***************************************************************************)

\* A response that makes the request fail with a transient error: a
\* timeout, a connection error, or a 5xx status raised by the method.
TransientFailure(resp) ==
    \/ resp.kind \in {"timeout", "connerr"}
    \/ resp.kind = "response" /\ resp.code >= 500 /\ RaisesForStatus(http_method)

\* A response that makes the request fail with a 4xx status other than 429.
PermanentFailure(resp) ==
    /\ resp.kind = "response" /\ RaisesForStatus(http_method)
    /\ resp.code >= 400 /\ resp.code < 500 /\ resp.code # 429

\* A response that makes the request fail with status 429.
RateLimited(resp) ==
    resp.kind = "response" /\ RaisesForStatus(http_method) /\ resp.code = 429

\* C5: a call whose every request failed with a transient error ends only
\* after max_retries + 1 underlying requests, with max_retries backoff sleeps,
\* raising the generic retries-exhausted error.
C5_TransientRetriesExhaust ==
    (/\ http_pc = "raised"
     /\ UsesRetryWrapper(http_method)
     /\ \A i \in 1..Len(http_responses) : TransientFailure(http_responses[i]))
      => /\ Len(http_responses) = http_max_retries + 1
         /\ Len(http_sleeps) = http_max_retries
         /\ http_error.type = "RetriesExhausted"

\* C6: once a request has failed with a 4xx status other than 429, the call
\* has raised after exactly one underlying request and without any sleep.
C6_PermanentFailsAtOnce ==
    (\E i \in 1..Len(http_responses) : PermanentFailure(http_responses[i]))
      => /\ http_pc = "raised"
         /\ Len(http_responses) = 1
         /\ http_sleeps = <<>>

\* C7: a sleep that follows a 429 response lasts min(v, 60 s) when the
\* response carries a parseable Retry-After v, and otherwise the exponential
\* backoff 2^attempt s plus at most half of it, capped at 60 s.
C7_RetryAfterHonoured ==
    \A i \in 1..Len(http_sleeps) :
        LET s == http_sleeps[i] IN
        RateLimited(s.after) =>
            IF s.after.ra.kind = "num"
            THEN s.dur = Min(Seconds(s.after.ra.v), Seconds(60))
            ELSE /\ s.dur >= Min(Seconds(Pow2(s.attempt)), Seconds(60))
                 /\ 2 * s.dur <= 3 * Seconds(Pow2(s.attempt))
                 /\ s.dur <= Seconds(60)

\* C7 witness: retries remain, a 429 with Retry-After: 2 arrived, and the
\* call is sleeping 2 seconds.
C7_Witness ==
    /\ http_pc = "sleeping"
    /\ http_sleeps # <<>>
    /\ RateLimited(Last(http_sleeps).after)
    /\ Last(http_sleeps).after.ra = [kind |-> "num", v |-> 2]
    /\ Last(http_sleeps).dur = Seconds(2)

\* C8: a call that met a 429 on every request and failed raised
\* RateLimitError carrying the Retry-After of the last response.
C8_RateLimitErrorAfter429s ==
    (/\ http_pc = "raised"
     /\ UsesRetryWrapper(http_method)
     /\ \A i \in 1..Len(http_responses) : RateLimited(http_responses[i]))
      => /\ http_error.type = "RateLimitError"
         /\ http_error.retry_after = ParseRetryAfter(Last(http_responses).ra)

\* C29: every pass of the retry loop makes one underlying request, so a
\* call whose first k requests failed with transient errors makes request
\* k + 1, and it returns that request's response when it succeeds: a call
\* that slept k times has made k + 1 requests once it is past its await.
C29_SucceedsAfterTransientFailures ==
    (UsesRetryWrapper(http_method) /\ http_pc \in {"returned", "raised", "sleeping"})
      => /\ Len(http_responses) = http_attempt + 1
         /\ http_pc = "returned" => ExceptionOf(http_method, Last(http_responses)) = "none"
         /\ http_pc = "raised" => ExceptionOf(http_method, Last(http_responses)) # "none"

\* C30: whatever the request method, a transient failure of its first
\* request while retries remain is followed by a backoff sleep of the retry
\* wrapper and never leaves the method at once.
C30_EveryMethodRetries ==
    (/\ http_pc = "raised"
     /\ http_max_retries >= 1
     /\ TransientFailure(http_responses[1]))
      => http_sleeps # <<>>

(***************************************************************************)
(* Claims about TaskRegistry                                               *)
(***************************************************************************)

ActiveValues == {"pending", "extracting", "downloading"}

\* C9: on a connected registry list_active returns exactly the stored tasks
\* whose status is PENDING, EXTRACTING or DOWNLOADING, each as get_task
\* returns it, and none whose status is COMPLETED, FAILED or CANCELLED.
C9_ListActiveExact ==
    connected =>
        /\ {ti.task_id : ti \in ListActive}
              = {id \in DOMAIN db : db[id].status \in ActiveValues}
        /\ \A ti \in ListActive :
              /\ ti.status \notin {"COMPLETED", "FAILED", "CANCELLED"}
              /\ HasTask(ti.task_id) /\ ti = GetTask(ti.task_id)

\* C9 witness: the store holds a cancelled task and a downloading one, and
\* list_active returns the downloading one alone.
C9_Witness ==
    /\ connected
    /\ \E i, j \in DOMAIN db :
          /\ db[i].status = "cancelled"
          /\ db[j].status = "downloading"
          /\ ListActive = {GetTask(j)}

(***************************************************************************)
(* Claims about DownloadService                                            *)
(***************************************************************************)

\* C10: when download() has returned and one of its transfers ended
\* cancelled, the task's durable status is CANCELLED.
C10_CancelledStaysCancelled ==
    \A d \in Downloads :
        (/\ svc_pc[d] = "returned"
         /\ \E i \in 1..Len(svc_results[d]) : svc_results[d][i].kind = "cancelled")
          => /\ svc_task[d] \in DOMAIN db
             /\ TaskStatusOf(db[svc_task[d]].status) = "CANCELLED"

TerminalValues == {"completed", "failed", "cancelled"}

\* C25: a stored status that is COMPLETED, FAILED or CANCELLED is not
\* changed by any step of the service: not by cancel(), not by a scheduled
\* progress update, not by the finalization of the download.
C25_TerminalStatusAbsorbing ==
    [][\A id \in DOMAIN db :
          db[id].status \in TerminalValues
             => (id \in DOMAIN db' /\ db'[id].status = db[id].status)]_vars

\* The task of download() call d is stored with a status in sts.
ReturnedWith(d, sts) ==
    /\ svc_pc[d] = "returned"
    /\ svc_task[d] \in DOMAIN db
    /\ TaskStatusOf(db[svc_task[d]].status) \in sts

NewFileEvents(id, i) == { e \in events' \ events : e.task_id = id /\ e.file = i }

\* C32: the step that finalizes a download stores COMPLETED exactly when
\* every result succeeded, otherwise FAILED with the error texts of the
\* failed results in their order, and emits one event for each file:
\* DOWNLOAD_COMPLETE for a success, DOWNLOAD_ERROR for a failure.
C32_FinalizeStoresOutcome ==
    [][\A d \in Downloads :
          (svc_pc[d] = "finalizing" /\ svc_pc'[d] = "returned") =>
             LET rs == svc_results[d]
                 id == svc_task[d]
                 bad == SelectSeq(rs, LAMBDA r : r.success = FALSE)
             IN /\ id \in DOMAIN db'
                /\ (db'[id].status = StatusValue("COMPLETED")) <=> (Len(bad) = 0)
                /\ Len(bad) > 0 =>
                      /\ db'[id].status = StatusValue("FAILED")
                      /\ db'[id].error = [k \in 1..Len(bad) |-> bad[k].error]
                /\ \A i \in 1..Len(rs) :
                      /\ Cardinality(NewFileEvents(id, i)) = 1
                      /\ \A e \in NewFileEvents(id, i) :
                            e.event = IF rs[i].success THEN "DOWNLOAD_COMPLETE"
                                      ELSE "DOWNLOAD_ERROR"
                /\ Cardinality(events' \ events) = Len(rs) ]_vars

\* Two files, the first transferred and the second failed: FAILED is stored
\* with the second file's error and both events are there.
C32_Witness ==
    \E d \in Downloads :
        /\ svc_pc[d] = "returned"
        /\ Len(svc_results[d]) = 2
        /\ svc_results[d][1].success
        /\ ~svc_results[d][2].success
        /\ db[svc_task[d]].status = StatusValue("FAILED")
        /\ db[svc_task[d]].error = <<"err">>
        /\ \E e \in events : e.event = "DOWNLOAD_COMPLETE" /\ e.file = 1
        /\ \E e \in events : e.event = "DOWNLOAD_ERROR" /\ e.file = 2

(***************************************************************************)
(* Claims about cancellation of a running transfer                         *)
(***************************************************************************)

\* cancel(task_id) has returned True for the task of download() call d
\* while its transfer is in progress.
CancelledInFlight(d) ==
    /\ cancel_pc = "idle"
    /\ cancel_ret
    /\ cancel_id = svc_task[d]
    /\ svc_pc[d] = "running"
    /\ dl_status[d] \in {"PENDING", "DOWNLOADING"}

\* C11: once cancel(task_id) has returned True for a task whose transfer is
\* in progress, the transfer eventually stops at a chunk boundary and ends
\* CANCELLED instead of running to completion.
C11_CancelTakesEffect ==
    \A d \in Downloads :
        [](CancelledInFlight(d) => <>(dl_status[d] = "CANCELLED"))

(***************************************************************************)
(* Claims about DownloadManager.download_url                               *)
(***************************************************************************)

\* The kind of result a download_task call returns after attempts that
\* ended as `outs`: decided by its own last attempt.
OwnOutcome(outs) ==
    IF outs = <<>> THEN "failed"
    ELSE IF Last(outs) = "ok" THEN "succeeded"
    ELSE IF Last(outs) = "cancel" THEN "cancelled"
    ELSE "failed"

\* C12: when download_url returns, every file's transfer has run to its own
\* terminal outcome whatever its siblings did, and the list holds exactly
\* one result per extracted file, in extraction order, each tagged with its
\* own task.
C12_BatchIsolatesFailures ==
    batch_pc = "returned" =>
        /\ Len(batch_results) = batch_files
        /\ \A i \in 1..batch_files :
              /\ batch_results[i].task = i
              /\ pc[i] = "done"
              /\ batch_results[i].result = result[i]
              /\ result[i].kind = OwnOutcome(outcomes[i])

\* C12 witness: a returned batch in which one file failed for good and a
\* later sibling succeeded.
C12_Witness ==
    /\ batch_pc = "returned"
    /\ batch_files >= 2
    /\ \E i, j \in 1..batch_files :
          /\ i < j
          /\ batch_results[i].result.kind = "failed"
          /\ batch_results[j].result.kind = "succeeded"

(***************************************************************************)
(* Claims about the durability of the TaskRegistry                         *)
(***************************************************************************)

\* C14: after the registry was closed and a TaskRegistry connected to the
\* same store again, get_task returns for every task the values of the most
\* recent create_task or update_task that returned, and None for a task
\* that was deleted or never created.
C14_DurableAcrossConnections ==
    (connected /\ since_write = "reopened") =>
        \A id \in TaskIds :
            /\ HasTask(id) <=> id \in DOMAIN written
            /\ HasTask(id) => GetTask(id) = written[id]

\* C14 witness: a task was updated to DOWNLOADING with a progress and an
\* error text, the registry was closed and opened again, and get_task
\* returns those values.
C14_Witness ==
    /\ connected
    /\ since_write = "reopened"
    /\ \E id \in TaskIds :
          /\ HasTask(id)
          /\ GetTask(id).status = "DOWNLOADING"
          /\ GetTask(id).progress = <<50>>
          /\ GetTask(id).error = <<"err">>

(***************************************************************************)
(* Claims about TaskRegistry.update_task and create_task                   *)
(***************************************************************************)

\* get_task agrees with what the callers passed: a field is what the last
\* call that passed it said, an error passed as None is gone, an error left
\* out is kept.
MatchesCallers ==
    connected =>
        \A id \in TaskIds :
            /\ HasTask(id) <=> id \in DOMAIN written
            /\ HasTask(id) => GetTask(id) = written[id]

\* A step that changes stored rows without adding or removing one changes
\* the row of one task only, and not its url, output_dir or created_at.
OneRowTouched ==
    (DOMAIN db' = DOMAIN db /\ db' # db) =>
        \E id \in DOMAIN db :
            /\ \A other \in DOMAIN db \ {id} : db'[other] = db[other]
            /\ db'[id].url = db[id].url
            /\ db'[id].output_dir = db[id].output_dir
            /\ db'[id].created_at = db[id].created_at

\* C15: update_task changes only the fields passed to it plus updated_at,
\* and only for the named task; fields not passed and all other tasks stay
\* unchanged, error=None clears the stored error, an omitted error keeps it.
C15_UpdateChangesOnlyGiven == []MatchesCallers /\ [][OneRowTouched]_vars

\* C15 witness: one task carries a status, a progress and an error set by
\* updates while another task is still as create_task left it.
C15_Witness ==
    /\ connected
    /\ \E id, other \in TaskIds :
          /\ id # other
          /\ HasTask(id) /\ HasTask(other)
          /\ GetTask(id).status = "FAILED"
          /\ GetTask(id).progress = <<50>>
          /\ GetTask(id).error = <<"err">>
          /\ GetTask(other).status = "PENDING"
          /\ GetTask(other).progress = EmptyProgress
          /\ GetTask(other).error = NoText

\* A step that adds the record of task id adds that record only, leaves the
\* existing records as they are, and the new record is PENDING with empty
\* progress, no error and created_at equal to updated_at.
CreatesOne(id) ==
    (id \notin DOMAIN db /\ id \in DOMAIN db') =>
        /\ connected
        /\ DOMAIN db' = DOMAIN db \cup {id}
        /\ \A other \in DOMAIN db : db'[other] = db[other]
        /\ RowToTask(id, db'[id]).status = "PENDING"
        /\ RowToTask(id, db'[id]).progress = EmptyProgress
        /\ RowToTask(id, db'[id]).error = NoText
        /\ RowToTask(id, db'[id]).created_at = RowToTask(id, db'[id]).updated_at

\* C16: create_task on a connected registry inserts exactly one new record,
\* under an id no existing record has, with status PENDING, empty progress,
\* no error and created_at equal to updated_at, and leaves every existing
\* record unchanged.
C16_CreateInsertsOnePending == [][\A id \in TaskIds : CreatesOne(id)]_vars

\* C16 witness: a task created at a later time stands beside an older task
\* that has been updated since its creation.
C16_Witness ==
    /\ connected
    /\ \E id, old \in TaskIds :
          /\ HasTask(id) /\ HasTask(old)
          /\ GetTask(old).created_at < GetTask(old).updated_at
          /\ GetTask(old).error = <<"err">>
          /\ GetTask(old).updated_at < GetTask(id).created_at
          /\ GetTask(id).created_at = GetTask(id).updated_at
          /\ GetTask(id).status = "PENDING"

(***************************************************************************)
(* Claims about DownloadService.cancel                                     *)
(***************************************************************************)

\* cancel(id) returns from its lookup: the id is unknown, the call returns
\* False and no record and no event has changed.
CancelUnknown(id) ==
    (SvcCancelLookup(id) /\ cancel_pc' = "idle") =>
        /\ ~(connected /\ id \in DOMAIN db)
        /\ cancel_ret' = FALSE
        /\ db' = db
        /\ events' = events

\* cancel(id) returns from its update: the id is stored, the call returns
\* True and the stored status is CANCELLED.
CancelKnown ==
    SvcCancelUpdate =>
        /\ cancel_ret' = TRUE
        /\ cancel_id \in DOMAIN db'
        /\ RowToTask(cancel_id, db'[cancel_id]).status = "CANCELLED"

FloodTexts ==
    { <<"IP", "address", "has", "been", "locked">>,
      <<"too", "many", "connections">>,
      <<"wait", "before", "retrying", "60", "seconds">> }

\* C19: for every attempt whose response text matches a flood/IP-lock
\* phrasing, the detector returned true and the one sleep made for the
\* attempt is the fixed flood_sleep, not an exponential backoff.
C19_FloodSleepsFixed ==
    \A i \in 1..Len(pacer_log) :
        pacer_log[i].text \in FloodTexts
            => /\ detect_flood_ip_lock(pacer_log[i].text)
               /\ pacer_log[i].sleeps = <<[kind |-> "flood", dur |-> FloodSleepMs]>>

\* C19 witness: the second failed attempt met "IP address has been locked"
\* and slept the flood duration, after a first attempt that backed off.
C19_Witness ==
    /\ Len(pacer_log) >= 2
    /\ pacer_pc = "sleeping"
    /\ pacer_log[1].sleeps[1].kind = "backoff"
    /\ pacer_log[2].text = <<"IP", "address", "has", "been", "locked">>
    /\ pacer_log[2].sleeps = <<[kind |-> "flood", dur |-> FloodSleepMs]>>

\* The attempts whose response text carries a wait time above max_wait
OverlongWait(i) ==
    /\ pacer_log[i].text # NotRead
    /\ ~detect_flood_ip_lock(pacer_log[i].text)
    /\ parse_wait_time(pacer_log[i].text) > MaxWaitSeconds

\* C20: an attempt whose parsed wait time exceeds the maximum acceptable
\* wait makes no sleep and ends the call with an error: it is the last
\* attempt of the call and is never followed by a retry.
C20_OverlongWaitIsTerminal ==
    \A i \in 1..Len(pacer_log) :
        OverlongWait(i)
            => /\ pacer_log[i].sleeps = <<>>
               /\ i = Len(pacer_log)
               /\ pacer_pc = "returned"
               /\ pacer_ret = "False"

\* The step is a GET that failed and started a standard backoff sleep
StartsBackoffSleep ==
    /\ Len(pacer_log') = Len(pacer_log) + 1
    /\ pacer_log'[Len(pacer_log')].sleeps # <<>>
    /\ pacer_log'[Len(pacer_log')].sleeps[1].kind = "backoff"

\* C39: one call makes at most max_retries + 1 GET calls, exactly one when
\* is_retryable is false; it returns true if and only if one of its GET
\* calls succeeded, and then the pacer's attempt counter is 0; each
\* standard backoff sleep adds exactly one to the counter, and nothing
\* else raises it.
C39_BoundedCallsAndCounter ==
    /\ [](/\ Len(pacer_log) <= pacer_max_retries + 1
          /\ (pacer_pc = "returned" /\ ~pacer_retryable => Len(pacer_log) = 1)
          /\ (pacer_pc = "returned" =>
                 (pacer_ret = "True" <=> \E i \in 1..Len(pacer_log) : pacer_log[i].ok))
          /\ (pacer_pc # "returned" =>
                 pacer_ret = "none" /\ \A i \in 1..Len(pacer_log) : ~pacer_log[i].ok)
          /\ (pacer_ret = "True" => pacer_count = 0))
    /\ [][/\ StartsBackoffSleep => pacer_count' = pacer_count + 1
          /\ pacer_count' > pacer_count => StartsBackoffSleep]_vars

\* C39 witness: two GET calls failed and backed off, raising the counter
\* to 2; the third, the last one allowed, succeeded and the counter is 0.
C39_Witness ==
    /\ pacer_pc = "returned"
    /\ pacer_ret = "True"
    /\ pacer_max_retries = 2
    /\ Len(pacer_log) = 3
    /\ pacer_log[1].sleeps # <<>> /\ pacer_log[1].sleeps[1].kind = "backoff"
    /\ pacer_log[2].sleeps # <<>> /\ pacer_log[2].sleeps[1].kind = "backoff"
    /\ pacer_log[3].ok
    /\ pacer_count = 0

\* The bounds of one returned delay, in hundredths of a millisecond
WithinBackoffBounds(d) ==
    /\ d.delay * 100 <= MaxBackoffMs * (100 + JitterPercent)
    /\ d.delay * 100 >=
           Min(MinBackoffMs * Pow2(d.attempt), MaxBackoffMs) * (100 - JitterPercent)

\* The delays returned for attempts below the float limit keep the bounds,
\* and their un-jittered delay does not decrease with the attempt.
ReturnedDelaysWithinBounds ==
    \A i \in 1..Len(pacer_delays) :
        pacer_delays[i].raised = "none" =>
            /\ WithinBackoffBounds(pacer_delays[i])
            /\ \A j \in 1..Len(pacer_delays) :
                  (pacer_delays[j].raised = "none"
                     /\ pacer_delays[i].attempt <= pacer_delays[j].attempt)
                        => pacer_delays[i].capped <= pacer_delays[j].capped

\* C40: for every attempt >= 0, calculate_backoff(attempt) returns a delay
\* of at most max_backoff * (1 + jitter) and at least
\* min(min_backoff * 2^attempt, max_backoff) * (1 - jitter), and the
\* un-jittered delay never decreases as the attempt grows.
C40_BackoffWithinBounds ==
    /\ \A i \in 1..Len(pacer_delays) : pacer_delays[i].raised = "none"
    /\ ReturnedDelaysWithinBounds

(***************************************************************************)
(* Claims about HTTPClient.download_stream                                 *)
(***************************************************************************)

\* C24: in the tuples one stream yields, downloaded never decreases from
\* one chunk to the next, and where total is known (total > 0) downloaded
\* does not exceed it.
C24_DownloadedMonotoneAndBounded ==
    \A i \in 1..Len(st_yields) :
        /\ i > 1 => st_yields[i].downloaded >= st_yields[i - 1].downloaded
        /\ st_yields[i].total > 0 => st_yields[i].downloaded <= st_yields[i].total

(***************************************************************************)
(* Claims about FileDownloader.download under download_task                *)
(***************************************************************************)

ActiveStatuses == {"PENDING", "DOWNLOADING", "PAUSED", "VERIFYING"}

AllowedTransitions ==
    { <<"PENDING", "DOWNLOADING">>, <<"DOWNLOADING", "VERIFYING">>,
      <<"VERIFYING", "COMPLETED">>, <<"DOWNLOADING", "PAUSED">>,
      <<"PAUSED", "DOWNLOADING">>, <<"FAILED", "PENDING">> }
    \cup (ActiveStatuses \X {"FAILED", "CANCELLED"})

\* C21: a task's status changes only along PENDING -> DOWNLOADING ->
\* VERIFYING -> COMPLETED, DOWNLOADING -> PAUSED -> DOWNLOADING and an active
\* state -> FAILED or CANCELLED; it goes back to PENDING only from FAILED,
\* by the outer retry after its backoff sleep.
C21_StatusTransitions ==
    [][ status'[FdTask] # status[FdTask] =>
          /\ <<status[FdTask], status'[FdTask]>> \in AllowedTransitions
          /\ (status'[FdTask] = "PENDING" =>
                 status[FdTask] = "FAILED" /\ pc[FdTask] = "sleeping") ]_vars

\* A second attempt, entered from FAILED through PENDING, that paused for a
\* chunk-level retry and completed.
C21_Witness ==
    /\ status[FdTask] = "COMPLETED"
    /\ attempt[FdTask] >= 1
    /\ fd_chunk_retries >= 1
    /\ outcomes[FdTask][1] = "fail"

ResumeCase ==
    /\ fd_cfg.enable_resume
    /\ fd_start.found > 0
    /\ ServerHonoursRange(fd_remote.header)

\* C22: with resume enabled, a partial file of N bytes and a server that
\* supports ranges, the stream is requested from offset N and downloaded
\* starts at N; otherwise the partial file is discarded and the transfer
\* starts at byte 0; a completed transfer leaves a file of the remote size.
C22_ResumeOrRestart ==
    /\ fd_start.offset # Absent =>
          IF ResumeCase
          THEN /\ fd_start.offset = fd_start.found
               /\ fd_start.downloaded = fd_start.found
               /\ fd_start.kept = fd_start.found
          ELSE /\ fd_start.offset = 0
               /\ fd_start.downloaded = 0
               /\ fd_start.kept = 0
    /\ status[FdTask] = "COMPLETED" => fd_file = fd_remote.size

\* A resumed transfer of a two-byte file that found one byte and completed.
C22_Witness ==
    /\ status[FdTask] = "COMPLETED"
    /\ ResumeCase
    /\ fd_start.offset = 1
    /\ fd_file = fd_remote.size
    /\ fd_remote.size = 2

ChecksumDiffers ==
    /\ fd_cfg.verify_checksum
    /\ fd_info.checksum # None
    /\ fd_info.checksum_type \in HASH_ALGORITHMS
    /\ Lower(fd_info.checksum) # FileHash(fd_file)

\* C23: when verification is enabled, the algorithm is supported and the
\* digest of the completed file differs from FileInfo.checksum, the call
\* raises ChecksumMismatchError carrying the expected and the actual digest,
\* and the attempt does not end COMPLETED.
C23_MismatchRaises ==
    /\ [](fd_verified /\ ChecksumDiffers =>
            /\ fd_raised.type = "ChecksumMismatchError"
            /\ fd_raised.expected = fd_info.checksum
            /\ fd_raised.actual = FileHash(fd_file)
            /\ status[FdTask] # "COMPLETED"
            /\ (Len(outcomes[FdTask]) = fd_runs => Last(outcomes[FdTask]) = "fail"))
    /\ [][fd_pc = "verify" /\ ChecksumDiffers => status'[FdTask] # "COMPLETED"]_vars

\* A fully written file whose digest differs from the expected one: the
\* call has raised and download_task has counted a failed attempt.
C23_Witness ==
    /\ fd_verified
    /\ ChecksumDiffers
    /\ fd_file = fd_remote.size
    /\ fd_raised.type = "ChecksumMismatchError"
    /\ Len(outcomes[FdTask]) = fd_runs

RECURSIVE SumOfLengths(_, _)
SumOfLengths(ys, i) == IF i = 0 THEN 0 ELSE ys[i].len + SumOfLengths(ys, i - 1)

\* C38: when a chunk read has exceeded the configured per-chunk timeout,
\* download_stream has raised TimeoutError and yields nothing more, and
\* each tuple yielded before carries as its byte count the sum of the
\* lengths of the chunks yielded up to it.
C38_ChunkTimeoutRaises ==
    /\ [](st_error = "TimeoutError" =>
            /\ st_timeout
            /\ st_pc = "raised"
            /\ \A i \in 1..Len(st_yields) :
                  /\ st_yields[i].len >= 1
                  /\ st_yields[i].downloaded = SumOfLengths(st_yields, i))
    /\ [][st_error = "TimeoutError" => UNCHANGED st_yields]_vars

\* Two chunks were yielded, then the read of the third timed out.
C38_Witness ==
    /\ st_error = "TimeoutError"
    /\ st_pc = "raised"
    /\ Len(st_yields) = 2
    /\ st_yields[2].downloaded = st_yields[1].len + st_yields[2].len
    /\ st_body > 0

(***************************************************************************)
(* Claims about HTTPClient._limiter                                        *)
(***************************************************************************)

\* C31: every request start of every method and every caller is made with
\* the limiter acquired, and in no second are more requests started than
\* requests_per_second allows.
C31_RequestStartsWithinBudget ==
    /\ rl_starts \subseteq rl_acquired
    /\ \A t \in 0..MaxLimClock :
          Cardinality({ r \in rl_starts : r[2] \in LastSecond(t) }) <= rl_rps

(***************************************************************************)
(* Claims about EventBus.emit                                              *)
(***************************************************************************)

\* C36: when emit has returned it has called exactly the callbacks that
\* were subscribed to the event when it was called, once for each
\* subscription and in subscription order, whatever the callbacks did to
\* the subscriptions during the delivery.
C36_EmitDeliversSnapshot ==
    em_pc = "returned" => em_called = em_snapshot

====
